---- MODULE Spec2Model ----
(***************************************************************************)
(* A model of the RFC domain model: the in-memory storage                  *)
(* (src/src/domain/storage/in-memory.ts) and the four services             *)
(* (src/src/domain/services/review-service.ts holds RFCService,            *)
(* CommentService, ReviewService and AgentService).                        *)
(*                                                                         *)
(* Every service method is an async function.  A call runs synchronously   *)
(* up to its first `await`, and each later segment between two awaits is   *)
(* one atomic step.  The storage methods have no await of their own        *)
(* (except getActiveByRFC and getThread), so a storage call executes at    *)
(* the moment it is called and the caller continues in a later step.       *)
(* Storage hands out the stored objects themselves: a review request       *)
(* obtained by getById is the stored object, and a write through it is     *)
(* visible at once.  RFC and comment objects are never written through;    *)
(* they are replaced, so a reference to one is a snapshot.                 *)
(***************************************************************************)
EXTENDS Integers, Sequences, FiniteSets, TLC

VARIABLES
  rfcs,            \* InMemoryRFCStorage.rfcs: id -> array of versions
  latestVersions,  \* InMemoryRFCStorage.latestVersions: id -> RFC or Null
  history,         \* ghost: id -> contents written by createRFC / each successful content update
  agents,          \* InMemoryAgentStorage.agents: id -> Agent or Null
  reviews,         \* InMemoryReviewStorage.reviews: array indexed by review id
  comments,        \* InMemoryCommentStorage.comments: id -> Comment or Null
  rfcComments,     \* InMemoryCommentStorage.rfcComments: document id -> comment ids, in insertion order
  parentChildMap,  \* InMemoryCommentStorage.parentChildMap: comment id -> ids of its replies, in insertion order
  now,             \* the wall clock read by new Date()
  calls,           \* the service calls in flight, one per slot
  last,            \* ghost: outcome ("ok" or the error) of the call that settled last, until the next call starts
  mode             \* how callers overlap their calls: "serial", "free" or "submit"

vars == <<rfcs, latestVersions, history, agents, reviews, comments, rfcComments, parentChildMap,
         now, calls, last, mode>>

(***************************************************************************)
(* Bounds                                                                  *)
(***************************************************************************)
MaxVersion == 3      \* content writes per document (the first one is createRFC)
MaxLen     == 2      \* length of a document body or of a searched text
MaxCalls   == 2      \* calls in flight at the same time
MaxReviews == 2      \* review requests created
MaxComments == 3     \* comments created by addComment and replyToComment
MaxTime == 3         \* the clock runs from 1 to MaxTime
MaxAgents == 1       \* agents created by createAgent

Alphabet == {"a", "b"}
RFCIds   == {1, 2}   \* the document ids in use (randomUUID never repeats one)
CallIds  == 1..MaxCalls
AgentIds == {"fe", "be", "ro", "nobody"}
CommentIds == 0..MaxComments   \* 1, 2, ... are the ids randomUUID gives to comments; 0 is an id a caller made up

Null == [null |-> TRUE]
NoParent == -1       \* the parentCommentId of a comment that is no reply (undefined)
Idle == [op |-> "idle"]

(***************************************************************************)
(* Strings are sequences of characters.                                    *)
(***************************************************************************)
Strings(n) == UNION {[1..k -> Alphabet] : k \in 0..n}

\* the document bodies callers write: "", "a", "ab", "aba", ...
Bodies == {[i \in 1..k |-> IF i % 2 = 1 THEN "a" ELSE "b"] : k \in 0..MaxLen}

\* the replaceString arguments callers pass: <<oldText, newText, replaceAll>>
Replacements == {<<<<"b">>, <<"a">>, FALSE>>, <<<<"a">>, <<>>, TRUE>>}

\* s.substring(i - 1, i - 1 + Len(t)) === t, for a 1-based position i
MatchesAt(s, t, i) ==
  /\ i + Len(t) - 1 <= Len(s)
  /\ SubSeq(s, i, i + Len(t) - 1) = t

\* String.prototype.includes
Includes(s, t) == \E i \in 1..(Len(s) + 1) : MatchesAt(s, t, i)

\* a search that finds the last occurrence
LastIndexOf(s, t) ==
  IF Includes(s, t)
  THEN (CHOOSE i \in 1..(Len(s) + 1) :
          /\ MatchesAt(s, t, i)
          /\ \A j \in (i + 1)..(Len(s) + 1) : ~MatchesAt(s, t, j)) - 1
  ELSE -1

\* String.prototype.indexOf (0-based, -1 when absent)
IndexOf(s, t) ==
  IF Includes(s, t)
  THEN (CHOOSE i \in 1..(Len(s) + 1) :
          /\ MatchesAt(s, t, i)
          /\ \A j \in 1..(i - 1) : ~MatchesAt(s, t, j)) - 1
  ELSE -1

\* String.prototype.substring(from) and substring(0, to), 0-based
SubstringFrom(s, from) == SubSeq(s, from + 1, Len(s))
SubstringTo(s, to)     == SubSeq(s, 1, to)

\* String.prototype.split(sep): the pieces between the non-overlapping
\* occurrences of sep, scanned left to right; an empty sep splits s into
\* its characters
RECURSIVE SplitFrom(_, _, _, _)
SplitFrom(s, sep, i, piece) ==
  IF i > Len(s) THEN <<piece>>
  ELSE IF MatchesAt(s, sep, i)
       THEN <<piece>> \o SplitFrom(s, sep, i + Len(sep), <<>>)
       ELSE SplitFrom(s, sep, i + 1, Append(piece, s[i]))

\* a split at the first occurrence of sep only
SplitAtFirst(s, sep) ==
  IF Includes(s, sep)
  THEN <<SubstringTo(s, IndexOf(s, sep)), SubstringFrom(s, IndexOf(s, sep) + Len(sep))>>
  ELSE <<s>>

Split(s, sep) ==
  IF sep = <<>> THEN [i \in 1..Len(s) |-> <<s[i]>>]
  ELSE SplitFrom(s, sep, 1, <<>>)

\* Array.prototype.join(glue)
RECURSIVE Join(_, _)
Join(pieces, glue) ==
  IF pieces = <<>> THEN <<>>
  ELSE IF Len(pieces) = 1 THEN pieces[1]
  ELSE pieces[1] \o glue \o Join(Tail(pieces), glue)

(***************************************************************************)
(* InMemoryRFCStorage                                                      *)
(***************************************************************************)
RFCStatuses == {"draft", "in_review", "approved", "rejected", "superseded"}

\* versions.findIndex(v => v.version === version), 1-based, 0 when absent
FindIndex(versions, version) ==
  IF \E i \in 1..Len(versions) : versions[i].version = version
  THEN CHOOSE i \in 1..Len(versions) :
         /\ versions[i].version = version
         /\ \A j \in 1..(i - 1) : versions[j].version # version
  ELSE 0

\* a reduce that keeps its initial value, the first element
ReduceFirst(versions, i, latest) == latest

\* versions.reduce((latest, current) => current.version > latest.version ? current : latest)
RECURSIVE ReduceLatest(_, _, _)
ReduceLatest(versions, i, latest) ==
  IF i > Len(versions) THEN latest
  ELSE ReduceLatest(versions, i + 1,
                    IF versions[i].version > latest.version THEN versions[i] ELSE latest)

\* a storage that keeps only the newest version object of a document
UpdatedVersionsOverwriting(rfc) ==
  LET versions == rfcs[rfc.id]
  IN IF Len(versions) > 0
     THEN [versions EXCEPT ![Len(versions)] = rfc]
     ELSE Append(versions, rfc)

\* InMemoryRFCStorage.update: the versions array of rfc.id after the call
UpdatedVersions(rfc) ==
  LET versions == rfcs[rfc.id]
      existingIndex == FindIndex(versions, rfc.version)
  IN IF existingIndex > 0
     THEN [versions EXCEPT ![existingIndex] = rfc]
     ELSE Append(versions, rfc)

StorageUpdateRFC(rfc) ==
  LET versions == UpdatedVersions(rfc)
  IN /\ rfcs' = [rfcs EXCEPT ![rfc.id] = versions]
     /\ latestVersions' = [latestVersions EXCEPT ![rfc.id] = ReduceLatest(versions, 2, versions[1])]

\* InMemoryRFCStorage.create
StorageCreateRFC(rfc) ==
  /\ rfcs' = [rfcs EXCEPT ![rfc.id] = Append(rfcs[rfc.id], rfc)]
  /\ latestVersions' = [latestVersions EXCEPT ![rfc.id] = rfc]

\* InMemoryRFCStorage.getById
GetRFC(id) == latestVersions[id]

\* InMemoryRFCStorage.getByVersion
GetByVersion(id, version) ==
  LET versions == rfcs[id]
      i == FindIndex(versions, version)
  IN IF i > 0 THEN versions[i] ELSE Null

(***************************************************************************)
(* Calls in flight                                                         *)
(***************************************************************************)
NoCallInFlight == \A p \in CallIds : calls[p] = Idle

\* the slot a new call takes
FreeSlot == CHOOSE p \in CallIds : calls[p] = Idle /\ \A q \in 1..(p - 1) : calls[q] # Idle

\* whether the callers' discipline lets the call c start now
MayStart(c) ==
  /\ \E p \in CallIds : calls[p] = Idle
  /\ mode = "serial" => NoCallInFlight
  /\ mode = "submit" =>
       \/ NoCallInFlight
       \/ /\ c.op = "submitReview"
          /\ \A p \in CallIds : calls[p] # Idle =>
               /\ calls[p].op = "submitReview"
               /\ calls[p].reviewRequestId = c.reviewRequestId
               /\ calls[p].agentId # c.agentId

\* the call c starts and runs up to its first await
Begin(c) ==
  /\ calls' = [calls EXCEPT ![FreeSlot] = c]
  /\ last' = "none"

\* the call in slot p settles: its promise resolves ("ok") or rejects with an error
Settle(p, result) ==
  /\ calls' = [calls EXCEPT ![p] = Idle]
  /\ last' = result

\* a call that settles before its first await
SettleAtOnce(result) ==
  /\ calls' = calls
  /\ last' = result

(***************************************************************************)
(* RFCService                                                              *)
(***************************************************************************)
\* the number of content writes made or under way on document id
ContentWrites(id) ==
  Len(history[id]) +
  Cardinality({p \in CallIds : calls[p] # Idle
                               /\ calls[p].op \in {"updateContent", "replaceString"}
                               /\ calls[p].rfcId = id})

\* the first version of a document, as createRFC stores it; every caller
\* passes the same title, author and requesting user
FirstVersion(id, content) ==
  [id |-> id, version |-> 1, status |-> "draft", title |-> "title", content |-> content,
   author |-> "author", requestingUser |-> "user", createdAt |-> now, updatedAt |-> now,
   previousVersionId |-> Null]

\* RFCService.createRFC: runs to storage.rfcs.create without a suspension
\* (id is the fresh randomUUID)
CreateRFC(id, content) ==
  /\ MayStart([op |-> "createRFC"])
  /\ latestVersions[id] = Null
  /\ IF content = <<>>
     THEN /\ SettleAtOnce("RFC content is required")
          /\ UNCHANGED <<rfcs, latestVersions, history>>
     ELSE /\ StorageCreateRFC(FirstVersion(id, content))
          /\ history' = [history EXCEPT ![id] = <<content>>]
          /\ SettleAtOnce("ok")
  /\ UNCHANGED <<agents, reviews, comments, rfcComments, parentChildMap, now, mode>>

\* a new version object that starts over as a draft, as createRFC's does
NewContentVersionAsDraft(existingRFC, content) ==
  [existingRFC EXCEPT !.version = existingRFC.version + 1,
                      !.status = "draft",
                      !.content = content,
                      !.updatedAt = now,
                      !.previousVersionId = <<existingRFC.id, existingRFC.version>>]

\* the new version object built by updateRFCContent: the version read,
\* spread, with version, content, updatedAt and previousVersionId replaced
NewContentVersion(existingRFC, content) ==
  [existingRFC EXCEPT !.version = existingRFC.version + 1,
                      !.content = content,
                      !.updatedAt = now,
                      !.previousVersionId = <<existingRFC.id, existingRFC.version>>]

\* RFCService.updateRFCContent up to its await of storage.rfcs.getById
UpdateContentStart(rfcId, content) ==
  LET c == [op |-> "updateContent", pc |-> "gotRFC", rfcId |-> rfcId,
            content |-> content, existingRFC |-> GetRFC(rfcId)]
  IN /\ MayStart(c)
     /\ ContentWrites(rfcId) < MaxVersion
     /\ Begin(c)
     /\ UNCHANGED <<rfcs, latestVersions, history, agents, reviews, comments, rfcComments, parentChildMap, now, mode>>

\* the rest of updateRFCContent: the not-found check, the new version, storage.rfcs.update
WriteContent(p, existingRFC, content) ==
  IF existingRFC = Null
  THEN /\ Settle(p, "RFC not found")
       /\ UNCHANGED <<rfcs, latestVersions, history>>
  ELSE /\ StorageUpdateRFC(NewContentVersion(existingRFC, content))
       /\ history' = [history EXCEPT ![existingRFC.id] = Append(@, content)]
       /\ Settle(p, "ok")

UpdateContentWrite(p) ==
  /\ calls[p] # Idle
  /\ calls[p].op = "updateContent"
  /\ calls[p].pc = "gotRFC"
  /\ WriteContent(p, calls[p].existingRFC, calls[p].content)
  /\ UNCHANGED <<agents, reviews, comments, rfcComments, parentChildMap, now, mode>>

\* a table that lets a document stay in the status it has
ValidTransitionsOrSame(currentStatus) ==
  CASE currentStatus = "draft"      -> {"in_review", "rejected", "draft"}
    [] currentStatus = "in_review"  -> {"approved", "rejected", "draft", "in_review"}
    [] currentStatus = "approved"   -> {"superseded", "approved"}
    [] currentStatus = "rejected"   -> {"draft", "rejected"}
    [] currentStatus = "superseded" -> {"superseded"}

\* RFCService.validateStatusTransition: the table of allowed transitions
ValidTransitions(currentStatus) ==
  CASE currentStatus = "draft"      -> {"in_review", "rejected"}
    [] currentStatus = "in_review"  -> {"approved", "rejected", "draft"}
    [] currentStatus = "approved"   -> {"superseded"}
    [] currentStatus = "rejected"   -> {"draft"}
    [] currentStatus = "superseded" -> {}

\* an updated object that takes the next version number, as updateRFCContent's does
UpdatedStatusAsNewVersion(existingRFC, status) ==
  [existingRFC EXCEPT !.status = status,
                      !.version = existingRFC.version + 1,
                      !.updatedAt = now,
                      !.previousVersionId = <<existingRFC.id, existingRFC.version>>]

\* the updatedRFC object built by updateRFCStatus: the version read, with the new status
UpdatedStatus(existingRFC, status) == [existingRFC EXCEPT !.status = status, !.updatedAt = now]

\* RFCService.updateRFCStatus up to its await of storage.rfcs.getById
UpdateStatusStart(rfcId, status) ==
  LET c == [op |-> "updateStatus", pc |-> "gotRFC", rfcId |-> rfcId,
            status |-> status, existingRFC |-> GetRFC(rfcId)]
  IN /\ MayStart(c)
     /\ Begin(c)
     /\ UNCHANGED <<rfcs, latestVersions, history, agents, reviews, comments, rfcComments, parentChildMap, now, mode>>

\* the rest of updateRFCStatus
UpdateStatusWrite(p) ==
  /\ calls[p] # Idle
  /\ calls[p].op = "updateStatus"
  /\ calls[p].pc = "gotRFC"
  /\ LET existingRFC == calls[p].existingRFC
     IN IF existingRFC = Null
        THEN /\ Settle(p, "RFC not found")
             /\ UNCHANGED <<rfcs, latestVersions>>
        ELSE IF calls[p].status \notin ValidTransitions(existingRFC.status)
        THEN /\ Settle(p, "Invalid status transition")
             /\ UNCHANGED <<rfcs, latestVersions>>
        ELSE /\ StorageUpdateRFC(UpdatedStatus(existingRFC, calls[p].status))
             /\ Settle(p, "ok")
  /\ UNCHANGED <<history, agents, reviews, comments, rfcComments, parentChildMap, now, mode>>

\* the content replaceString passes to updateRFCContent
ReplacedContent(content, oldText, newText, replaceAll) ==
  IF replaceAll
  THEN Join(Split(content, oldText), newText)
  ELSE LET index == IndexOf(content, oldText)
       IN IF index # -1
          THEN SubstringTo(content, index) \o newText
                 \o SubstringFrom(content, index + Len(oldText))
          ELSE content

\* RFCService.replaceString up to its await of storage.rfcs.getById
ReplaceStringStart(rfcId, oldText, newText, replaceAll) ==
  LET c == [op |-> "replaceString", pc |-> "gotRFC", rfcId |-> rfcId,
            oldText |-> oldText, newText |-> newText, replaceAll |-> replaceAll,
            rfc |-> GetRFC(rfcId)]
  IN /\ MayStart(c)
     /\ ContentWrites(rfcId) < MaxVersion
     /\ Begin(c)
     /\ UNCHANGED <<rfcs, latestVersions, history, agents, reviews, comments, rfcComments, parentChildMap, now, mode>>

\* replaceString: the not-found check, then validateStringExists up to its
\* await of storage.rfcs.getById
ReplaceStringValidate(p) ==
  /\ calls[p] # Idle
  /\ calls[p].op = "replaceString"
  /\ calls[p].pc = "gotRFC"
  /\ IF calls[p].rfc = Null
     THEN Settle(p, "RFC not found")
     ELSE /\ calls' = [calls EXCEPT ![p] = [calls[p] EXCEPT !.pc = "validating"]
                                             @@ [checked |-> GetRFC(calls[p].rfcId)]]
          /\ last' = last
  /\ UNCHANGED <<rfcs, latestVersions, history, agents, reviews, comments, rfcComments, parentChildMap, now, mode>>

\* a validation that finds every text
StringExistsAlways(rfc, text) == TRUE

\* what validateStringExists returns for the document it has read:
\* false for none, else rfc.content.includes(text)
StringExists(rfc, text) == IF rfc = Null THEN FALSE ELSE Includes(rfc.content, text)

\* the rest of validateStringExists
ReplaceStringValidated(p) ==
  /\ calls[p] # Idle
  /\ calls[p].op = "replaceString"
  /\ calls[p].pc = "validating"
  /\ calls' = [calls EXCEPT ![p] = [calls[p] EXCEPT !.pc = "validated"]
                                     @@ [exists |-> StringExists(calls[p].checked, calls[p].oldText)]]
  /\ UNCHANGED <<rfcs, latestVersions, history, agents, reviews, comments, rfcComments, parentChildMap, now, last, mode>>

\* replaceString after validateStringExists: the not-found-in-content error,
\* the new content, and updateRFCContent up to its await of storage.rfcs.getById
ReplaceStringReplace(p) ==
  /\ calls[p] # Idle
  /\ calls[p].op = "replaceString"
  /\ calls[p].pc = "validated"
  /\ IF ~calls[p].exists
     THEN Settle(p, "not found in RFC content")
     ELSE /\ calls' = [calls EXCEPT ![p] =
                         [calls[p] EXCEPT !.pc = "updating"]
                         @@ [newContent |-> ReplacedContent(calls[p].rfc.content, calls[p].oldText,
                                                            calls[p].newText, calls[p].replaceAll),
                             existingRFC |-> GetRFC(calls[p].rfcId)]]
          /\ last' = last
  /\ UNCHANGED <<rfcs, latestVersions, history, agents, reviews, comments, rfcComments, parentChildMap, now, mode>>

\* the rest of the updateRFCContent call made by replaceString
ReplaceStringWrite(p) ==
  /\ calls[p] # Idle
  /\ calls[p].op = "replaceString"
  /\ calls[p].pc = "updating"
  /\ WriteContent(p, calls[p].existingRFC, calls[p].newContent)
  /\ UNCHANGED <<agents, reviews, comments, rfcComments, parentChildMap, now, mode>>

(***************************************************************************)
(* InMemoryAgentStorage, InMemoryReviewStorage                             *)
(***************************************************************************)
Range(f) == {f[i] : i \in DOMAIN f}

\* InMemoryAgentStorage.getById
GetAgent(id) == agents[id]

\* the position of a review among those sorted by createdAt, newest first;
\* Array.prototype.sort is stable, so equal times keep their insertion order
RECURSIVE InsertNewestFirst(_, _)
InsertNewestFirst(sorted, id) ==
  IF sorted = <<>> THEN <<id>>
  ELSE IF reviews[Head(sorted)].createdAt >= reviews[id].createdAt
       THEN <<Head(sorted)>> \o InsertNewestFirst(Tail(sorted), id)
       ELSE <<id>> \o sorted

RECURSIVE ReviewsByRFCFrom(_, _, _)
ReviewsByRFCFrom(rfcId, i, sorted) ==
  IF i > Len(reviews) THEN sorted
  ELSE ReviewsByRFCFrom(rfcId, i + 1,
                        IF reviews[i].rfcId = rfcId THEN InsertNewestFirst(sorted, i) ELSE sorted)

\* InMemoryReviewStorage.getByRFC: the review requests of a document (as
\* references to the stored objects), newest first
GetReviewsByRFC(rfcId) == ReviewsByRFCFrom(rfcId, 1, <<>>)

\* a find that looks for a review that has its completedAt
FirstCompleted(candidates) ==
  IF \E i \in 1..Len(candidates) : reviews[candidates[i]].completedAt # 0
  THEN candidates[CHOOSE i \in 1..Len(candidates) :
                    /\ reviews[candidates[i]].completedAt # 0
                    /\ \A j \in 1..(i - 1) : reviews[candidates[j]].completedAt = 0]
  ELSE 0

\* reviews.find(r => !r.completedAt) in getActiveByRFC, 0 for null; it runs
\* after the await of getByRFC, on the objects as they are by then
FirstActive(candidates) ==
  IF \E i \in 1..Len(candidates) : reviews[candidates[i]].completedAt = 0
  THEN candidates[CHOOSE i \in 1..Len(candidates) :
                    /\ reviews[candidates[i]].completedAt = 0
                    /\ \A j \in 1..(i - 1) : reviews[candidates[j]].completedAt # 0]
  ELSE 0

\* InMemoryReviewStorage.getById, 0 for null
GetReview(id) == IF id \in 1..Len(reviews) THEN id ELSE 0

(***************************************************************************)
(* ReviewService                                                           *)
(***************************************************************************)
\* the review requests created or being created
ReviewsRequested ==
  Len(reviews) + Cardinality({p \in CallIds : calls[p] # Idle /\ calls[p].op = "requestReview"})

\* ReviewService.requestReview: validateRequestParams, then up to the await
\* of storage.rfcs.getById
RequestReviewStart(rfcId, reviewerAgentIds, deadline) ==
  LET c == [op |-> "requestReview", pc |-> "gotRFC", rfcId |-> rfcId,
            reviewerAgentIds |-> reviewerAgentIds, deadline |-> deadline,
            rfc |-> GetRFC(rfcId), candidates |-> <<>>, activeReview |-> 0,
            index |-> 0, agent |-> Null]
  IN /\ MayStart(c)
     /\ \/ ReviewsRequested < MaxReviews
        \/ mode = "serial" /\ FirstActive(GetReviewsByRFC(rfcId)) # 0   \* a call that creates nothing
     /\ IF reviewerAgentIds = <<>>
        THEN SettleAtOnce("At least one reviewer is required")
        ELSE IF deadline # 0 /\ deadline <= now
        THEN SettleAtOnce("Review deadline must be in the future")
        ELSE Begin(c)
     /\ UNCHANGED <<rfcs, latestVersions, history, agents, reviews, comments, rfcComments, parentChildMap, now, mode>>

\* requestReview: the not-found check, then getActiveByRFC up to its await of getByRFC
RequestReviewList(p) ==
  /\ calls[p] # Idle
  /\ calls[p].op = "requestReview"
  /\ calls[p].pc = "gotRFC"
  /\ IF calls[p].rfc = Null
     THEN Settle(p, "RFC not found")
     ELSE /\ calls' = [calls EXCEPT ![p].pc = "listed",
                                    ![p].candidates = GetReviewsByRFC(calls[p].rfcId)]
          /\ last' = last
  /\ UNCHANGED <<rfcs, latestVersions, history, agents, reviews, comments, rfcComments, parentChildMap, now, mode>>

\* the rest of getActiveByRFC
RequestReviewFind(p) ==
  /\ calls[p] # Idle
  /\ calls[p].op = "requestReview"
  /\ calls[p].pc = "listed"
  /\ calls' = [calls EXCEPT ![p].pc = "found",
                            ![p].activeReview = FirstActive(calls[p].candidates)]
  /\ UNCHANGED <<rfcs, latestVersions, history, agents, reviews, comments, rfcComments, parentChildMap, now, last, mode>>

\* requestReview: the active-review check, then the reviewer loop up to its
\* first await of storage.agents.getById
RequestReviewCheck(p) ==
  /\ calls[p] # Idle
  /\ calls[p].op = "requestReview"
  /\ calls[p].pc = "found"
  /\ IF calls[p].activeReview # 0
     THEN Settle(p, "already has an active review request")
     ELSE /\ calls' = [calls EXCEPT ![p].pc = "gotAgent", ![p].index = 1,
                                    ![p].agent = GetAgent(calls[p].reviewerAgentIds[1])]
          /\ last' = last
  /\ UNCHANGED <<rfcs, latestVersions, history, agents, reviews, comments, rfcComments, parentChildMap, now, mode>>

\* the review request object requestReview builds (id is the fresh randomUUID)
NewReviewRequest(id, c) ==
  [id |-> id, rfcId |-> c.rfcId, rfcVersion |-> c.rfc.version,
   reviewerAgentIds |-> c.reviewerAgentIds,
   reviewStatuses |-> [a \in Range(c.reviewerAgentIds) |-> "pending"],
   deadline |-> c.deadline, createdAt |-> now, completedAt |-> 0,
   stamps |-> 0]      \* ghost: the number of times completedAt was assigned

\* InMemoryReviewStorage.create
StorageCreateReview(review) == reviews' = Append(reviews, review)

\* a permission test that every agent passes
MayReviewAlways(agent) == TRUE

\* the permission test on a reviewer: agent.capabilities.canComment, in
\* requestReview and in addReviewersToActiveReview
MayReview(agent) == agent.capabilities.canComment

\* requestReview: the checks on one reviewer, then either the next await of
\* storage.agents.getById or the creation of the review request
RequestReviewAgent(p) ==
  /\ calls[p] # Idle
  /\ calls[p].op = "requestReview"
  /\ calls[p].pc = "gotAgent"
  /\ LET c == calls[p]
     IN IF c.agent = Null
        THEN Settle(p, "Reviewer agent not found") /\ reviews' = reviews
        ELSE IF ~MayReview(c.agent)
        THEN Settle(p, "does not have permission to review") /\ reviews' = reviews
        ELSE IF c.index < Len(c.reviewerAgentIds)
        THEN /\ calls' = [calls EXCEPT ![p].index = c.index + 1,
                                       ![p].agent = GetAgent(c.reviewerAgentIds[c.index + 1])]
             /\ last' = last
             /\ reviews' = reviews
        ELSE /\ StorageCreateReview(NewReviewRequest(Len(reviews) + 1, c))
             /\ Settle(p, "ok")
  /\ UNCHANGED <<rfcs, latestVersions, history, agents, comments, rfcComments, parentChildMap, now, mode>>

\* a comment object as CommentService builds it: open, not resolved, not
\* dismissed; parentCommentId NoParent and resolvedBy / dismissedBy "" stand for undefined
CommentRecord(id, rfcId, rfcVersion, agentId, type, textReference, parentCommentId, createdAt) ==
  [id |-> id, rfcId |-> rfcId, rfcVersion |-> rfcVersion, agentId |-> agentId,
   type |-> type, status |-> "open", textReference |-> textReference,
   parentCommentId |-> parentCommentId, createdAt |-> createdAt,
   resolvedBy |-> "", dismissedBy |-> ""]

\* a set that keeps only the element added last
SetOfLast(ids, id) == <<id>>

\* Set.prototype.add on a set kept in insertion order
SetAdd(ids, id) == IF \E i \in 1..Len(ids) : ids[i] = id THEN ids ELSE Append(ids, id)

\* InMemoryCommentStorage.create
StorageCreateComment(comment) ==
  /\ comments' = [comments EXCEPT ![comment.id] = comment]
  /\ rfcComments' = [rfcComments EXCEPT ![comment.rfcId] = SetAdd(@, comment.id)]
  /\ parentChildMap' = IF comment.parentCommentId # NoParent
                       THEN [parentChildMap EXCEPT ![comment.parentCommentId] = SetAdd(@, comment.id)]
                       ELSE parentChildMap

\* a quorum of any one reviewer
SomeCompleted(reviewStatuses) ==
  \E a \in DOMAIN reviewStatuses : reviewStatuses[a] = "completed"

\* Object.values(reviewStatuses).every(status => status === COMPLETED)
AllCompleted(reviewStatuses) ==
  \A a \in DOMAIN reviewStatuses : reviewStatuses[a] = "completed"

\* an end of submitReview that evaluates the quorum before it records the reviewer's status
CompletedByLate(review, agentId) ==
  LET statuses == [review.reviewStatuses EXCEPT ![agentId] = "completed"]
  IN [review EXCEPT !.reviewStatuses = statuses,
                    !.completedAt = IF AllCompleted(review.reviewStatuses) THEN now ELSE @,
                    !.stamps = IF AllCompleted(review.reviewStatuses) THEN @ + 1 ELSE @]

\* the end of submitReview: the reviewer's status, the quorum and the stamp,
\* written through the stored review request
CompletedBy(review, agentId) ==
  LET statuses == [review.reviewStatuses EXCEPT ![agentId] = "completed"]
  IN [review EXCEPT !.reviewStatuses = statuses,
                    !.completedAt = IF AllCompleted(statuses) THEN now ELSE @,
                    !.stamps = IF AllCompleted(statuses) THEN @ + 1 ELSE @]

\* a deadline that never passes
DeadlineNeverPassed(review) == FALSE

\* submitReview's test of the deadline: reviewRequest.deadline && new Date() > reviewRequest.deadline
DeadlinePassed(review) == review.deadline # 0 /\ now > review.deadline

\* a test that lets a reviewer submit again
NeverSubmitted(review, agentId) == FALSE

\* submitReview's test of the reviewer's current status
AlreadySubmitted(review, agentId) == review.reviewStatuses[agentId] = "completed"

\* ReviewService.submitReview: validateSubmitParams, then up to the await of
\* storage.reviews.getById
SubmitReviewStart(reviewRequestId, agentId, submitted) ==
  LET c == [op |-> "submitReview", pc |-> "gotReview", reviewRequestId |-> reviewRequestId,
            agentId |-> agentId, comments |-> submitted,
            reviewRequest |-> GetReview(reviewRequestId), index |-> 0,
            \* ghost: the stored comments as they were before the call, for
            \* callers that await each call before the next
            before |-> IF mode = "serial" THEN comments ELSE <<>>]
  IN /\ MayStart(c)
     /\ Begin(c)
     /\ UNCHANGED <<rfcs, latestVersions, history, agents, reviews, comments, rfcComments, parentChildMap, now, mode>>

\* submitReview's loop over params.comments from position i on, up to the
\* await of storage.comments.create, and after the loop the rest of submitReview
SubmitReviewFrom(p, i) ==
  LET c == calls[p]
      review == reviews[c.reviewRequest]
  IN IF i > Len(c.comments)
     THEN /\ reviews' = [reviews EXCEPT ![c.reviewRequest] = CompletedBy(review, c.agentId)]
          /\ UNCHANGED <<comments, rfcComments, parentChildMap>>
          /\ Settle(p, "ok")
     ELSE IF c.comments[i].rfcId # review.rfcId
     THEN /\ Settle(p, "is not for the RFC being reviewed")
          /\ UNCHANGED <<reviews, comments, rfcComments, parentChildMap>>
     ELSE /\ StorageCreateComment(c.comments[i])
          /\ calls' = [calls EXCEPT ![p].pc = "storedComment", ![p].index = i]
          /\ UNCHANGED <<reviews, last>>

\* submitReview: the checks on the review request, then the loop
SubmitReviewCheck(p) ==
  /\ calls[p] # Idle
  /\ calls[p].op = "submitReview"
  /\ calls[p].pc = "gotReview"
  /\ LET c == calls[p]
     IN IF c.reviewRequest = 0
        THEN Settle(p, "Review request not found") /\ UNCHANGED <<reviews, comments, rfcComments, parentChildMap>>
        ELSE IF reviews[c.reviewRequest].completedAt # 0
        THEN Settle(p, "is already completed") /\ UNCHANGED <<reviews, comments, rfcComments, parentChildMap>>
        ELSE IF c.agentId \notin Range(reviews[c.reviewRequest].reviewerAgentIds)
        THEN Settle(p, "is not a reviewer for this request") /\ UNCHANGED <<reviews, comments, rfcComments, parentChildMap>>
        ELSE IF AlreadySubmitted(reviews[c.reviewRequest], c.agentId)
        THEN Settle(p, "has already submitted their review") /\ UNCHANGED <<reviews, comments, rfcComments, parentChildMap>>
        ELSE IF DeadlinePassed(reviews[c.reviewRequest])
        THEN Settle(p, "Review deadline has passed") /\ UNCHANGED <<reviews, comments, rfcComments, parentChildMap>>
        ELSE SubmitReviewFrom(p, 1)
  /\ UNCHANGED <<rfcs, latestVersions, history, agents, now, mode>>

\* submitReview after an await of storage.comments.create
SubmitReviewNext(p) ==
  /\ calls[p] # Idle
  /\ calls[p].op = "submitReview"
  /\ calls[p].pc = "storedComment"
  /\ SubmitReviewFrom(p, calls[p].index + 1)
  /\ UNCHANGED <<rfcs, latestVersions, history, agents, now, mode>>

\* ReviewService.markReviewInProgress up to the await of storage.reviews.getById
MarkReviewInProgressStart(reviewRequestId, agentId) ==
  LET c == [op |-> "markReviewInProgress", pc |-> "gotReview",
            reviewRequestId |-> reviewRequestId, agentId |-> agentId,
            reviewRequest |-> GetReview(reviewRequestId)]
  IN /\ MayStart(c)
     /\ Begin(c)
     /\ UNCHANGED <<rfcs, latestVersions, history, agents, reviews, comments, rfcComments, parentChildMap, now, mode>>

\* the rest of markReviewInProgress
MarkReviewInProgressWrite(p) ==
  /\ calls[p] # Idle
  /\ calls[p].op = "markReviewInProgress"
  /\ calls[p].pc = "gotReview"
  /\ LET c == calls[p]
     IN IF c.reviewRequest = 0
        THEN Settle(p, "Review request not found") /\ reviews' = reviews
        ELSE IF c.agentId \notin Range(reviews[c.reviewRequest].reviewerAgentIds)
        THEN Settle(p, "is not a reviewer for this request") /\ reviews' = reviews
        ELSE IF reviews[c.reviewRequest].reviewStatuses[c.agentId] = "completed"
        THEN Settle(p, "has already completed their review") /\ reviews' = reviews
        ELSE /\ reviews' = [reviews EXCEPT ![c.reviewRequest].reviewStatuses[c.agentId] = "in_progress"]
             /\ Settle(p, "ok")
  /\ UNCHANGED <<rfcs, latestVersions, history, agents, comments, rfcComments, parentChildMap, now, mode>>

\* ReviewService.addReviewersToActiveReview up to the await of getByRFC inside getActiveByRFC
AddReviewersStart(rfcId, newReviewerIds) ==
  LET c == [op |-> "addReviewers", pc |-> "listed", rfcId |-> rfcId,
            newReviewerIds |-> newReviewerIds, candidates |-> GetReviewsByRFC(rfcId),
            activeReview |-> 0, index |-> 0, agent |-> Null,
            \* ghost: the review requests as they were before the call, for
            \* callers that await each call before the next
            before |-> IF mode = "serial" THEN reviews ELSE <<>>]
  IN /\ MayStart(c)
     /\ Begin(c)
     /\ UNCHANGED <<rfcs, latestVersions, history, agents, reviews, comments, rfcComments, parentChildMap, now, mode>>

\* the rest of getActiveByRFC
AddReviewersFind(p) ==
  /\ calls[p] # Idle
  /\ calls[p].op = "addReviewers"
  /\ calls[p].pc = "listed"
  /\ calls' = [calls EXCEPT ![p].pc = "found",
                            ![p].activeReview = FirstActive(calls[p].candidates)]
  /\ UNCHANGED <<rfcs, latestVersions, history, agents, reviews, comments, rfcComments, parentChildMap, now, last, mode>>

\* a loop that takes every id of the list, listed already or not
NextReviewerListedOrNot(newReviewerIds, from, reviewerAgentIds) ==
  IF from <= Len(newReviewerIds) THEN from ELSE 0

\* the first position from `from` on whose id is not among reviewerAgentIds, 0 if none
NextNewReviewer(newReviewerIds, from, reviewerAgentIds) ==
  IF \E i \in from..Len(newReviewerIds) : newReviewerIds[i] \notin Range(reviewerAgentIds)
  THEN CHOOSE i \in from..Len(newReviewerIds) :
         /\ newReviewerIds[i] \notin Range(reviewerAgentIds)
         /\ \A j \in from..(i - 1) : newReviewerIds[j] \in Range(reviewerAgentIds)
  ELSE 0

\* addReviewersToActiveReview's loop from position `from` on, the reviewer
\* list being reviewerAgentIds: up to the next await of storage.agents.getById,
\* or to the end of the loop and storage.reviews.update
AddReviewersFrom(p, from, reviewerAgentIds) ==
  LET next == NextNewReviewer(calls[p].newReviewerIds, from, reviewerAgentIds)
  IN IF next = 0
     THEN Settle(p, "ok")
     ELSE /\ calls' = [calls EXCEPT ![p].pc = "gotAgent", ![p].index = next,
                                    ![p].agent = GetAgent(calls[p].newReviewerIds[next])]
          /\ last' = last

\* addReviewersToActiveReview: the no-active-review check, then the loop
AddReviewersCheck(p) ==
  /\ calls[p] # Idle
  /\ calls[p].op = "addReviewers"
  /\ calls[p].pc = "found"
  /\ IF calls[p].activeReview = 0
     THEN Settle(p, "No active review found")
     ELSE AddReviewersFrom(p, 1, reviews[calls[p].activeReview].reviewerAgentIds)
  /\ UNCHANGED <<rfcs, latestVersions, history, agents, reviews, comments, rfcComments, parentChildMap, now, mode>>

\* the review request with one more reviewer, pending
WithReviewer(review, reviewerId) ==
  [review EXCEPT !.reviewerAgentIds = Append(@, reviewerId),
                 !.reviewStatuses = [a \in DOMAIN @ \cup {reviewerId} |->
                                       IF a = reviewerId THEN "pending" ELSE @[a]]]

\* addReviewersToActiveReview: the checks on one new reviewer, the push
\* through the stored review request, then the loop
AddReviewersAgent(p) ==
  /\ calls[p] # Idle
  /\ calls[p].op = "addReviewers"
  /\ calls[p].pc = "gotAgent"
  /\ LET c == calls[p]
         added == WithReviewer(reviews[c.activeReview], c.newReviewerIds[c.index])
     IN IF c.agent = Null
        THEN Settle(p, "Reviewer agent not found") /\ reviews' = reviews
        ELSE IF ~MayReview(c.agent)
        THEN Settle(p, "does not have permission to review") /\ reviews' = reviews
        ELSE /\ reviews' = [reviews EXCEPT ![c.activeReview] = added]
             /\ AddReviewersFrom(p, c.index + 1, added.reviewerAgentIds)
  /\ UNCHANGED <<rfcs, latestVersions, history, agents, comments, rfcComments, parentChildMap, now, mode>>

(***************************************************************************)
(* CommentService                                                          *)
(***************************************************************************)
\* InMemoryCommentStorage.getById
GetComment(id) == comments[id]

\* InMemoryCommentStorage.update
StorageUpdateComment(comment) ==
  /\ comments' = [comments EXCEPT ![comment.id] = comment]
  /\ UNCHANGED <<rfcComments, parentChildMap>>

\* Array.prototype.sort by createdAt, oldest first, on comment ids; the sort
\* is stable, so equal times keep their order
RECURSIVE InsertOldestFirst(_, _)
InsertOldestFirst(sorted, id) ==
  IF sorted = <<>> THEN <<id>>
  ELSE IF comments[Head(sorted)].createdAt <= comments[id].createdAt
       THEN <<Head(sorted)>> \o InsertOldestFirst(Tail(sorted), id)
       ELSE <<id>> \o sorted

\* Array.from(ids).map(id => comments.get(id)).filter(c => c !== undefined).sort(...),
\* from position i on; the comments are given by their ids
RECURSIVE StoredOldestFirst(_, _, _)
StoredOldestFirst(ids, i, sorted) ==
  IF i > Len(ids) THEN sorted
  ELSE StoredOldestFirst(ids, i + 1,
                         IF comments[ids[i]] # Null THEN InsertOldestFirst(sorted, ids[i]) ELSE sorted)

\* InMemoryCommentStorage.getByRFC without a status filter
\* (CommentService.getCommentsForRFC)
GetCommentsByRFC(rfcId) == StoredOldestFirst(rfcComments[rfcId], 1, <<>>)

\* a lookup that finds no reply
GetNoReplies(parentCommentId) == <<>>

\* InMemoryCommentStorage.getByParent
GetByParent(parentCommentId) == StoredOldestFirst(parentChildMap[parentCommentId], 1, <<>>)

\* a visited set that records nothing
VisitNothing(visited, id) == visited

\* visited.add(id)
Visit(visited, id) == visited \cup {id}

\* the number of comment ids buildThread may go into before a walk is cut
\* off and counted as one that does not end: one more than there are ids
WalkLimit == MaxComments + 2

\* buildThread(id) inside getThread, and its loop over the children from
\* position i on; st holds the thread built so far (comment ids), the
\* visited set and the number of ids gone into (invocations that got past
\* the visited test)
RECURSIVE BuildThread(_, _), BuildChildren(_, _, _)
BuildThread(id, st) ==
  IF id \in st.visited \/ st.steps >= WalkLimit THEN st
  ELSE LET seen == [st EXCEPT !.visited = Visit(@, id), !.steps = @ + 1]
           comment == GetComment(id)
       IN IF comment = Null THEN seen
          ELSE LET up == IF comment.parentCommentId # NoParent
                            /\ comment.parentCommentId \notin seen.visited
                         THEN BuildThread(comment.parentCommentId, seen)
                         ELSE seen
                   pushed == [up EXCEPT !.thread = Append(@, id)]
               IN BuildChildren(GetByParent(id), 1, pushed)

BuildChildren(children, i, st) ==
  IF i > Len(children) THEN st
  ELSE BuildChildren(children, i + 1, BuildThread(children[i], st))

\* the walk getThread makes from commentId
Walk(commentId) == BuildThread(commentId, [thread |-> <<>>, visited |-> {}, steps |-> 0])

\* InMemoryCommentStorage.getThread: the ids of the comments of the thread, in the order returned
GetThread(commentId) == Walk(commentId).thread

\* CommentService.getCommentThread: the not-found error, else the thread
GetCommentThread(commentId) ==
  IF GetComment(commentId) = Null THEN "Comment not found" ELSE GetThread(commentId)

\* the ids randomUUID has given to comments, and the next one
CreatedCommentIds == {i \in CommentIds : i > 0 /\ comments[i] # Null}

FreshCommentId == CHOOSE i \in CommentIds : i > 0 /\ comments[i] = Null /\ \A j \in 1..(i - 1) : comments[j] # Null

\* the comments created or being created
CommentsRequested ==
  Cardinality(CreatedCommentIds) +
  Cardinality({p \in CallIds : calls[p] # Idle /\ calls[p].op \in {"addComment", "replyToComment"}})

\* a permission test that every agent passes
MayCommentAlways(agent) == TRUE

\* the permission test of addComment and replyToComment: agent.capabilities.canComment
MayComment(agent) == agent.capabilities.canComment

\* a test of the quoted text that every text passes
TextExistsAlways(rfc, quotedText) == TRUE

\* addComment's test of the quoted text: rfc.content.includes(params.quotedText)
TextExists(rfc, quotedText) == Includes(rfc.content, quotedText)

\* a test that takes every comment for an open one
IsOpenAlways(comment) == TRUE

\* the test of resolveComment and dismissComment: comment.status === CommentStatus.OPEN
IsOpen(comment) == comment.status = "open"

\* CommentService.addComment: validateAddCommentParams (the callers pass
\* non-empty ids, content and type), then up to the await of
\* storage.rfcs.getById; quotedText <<>> is a quoted text left out or empty
AddCommentStart(rfcId, agentId, commentType, quotedText) ==
  LET c == [op |-> "addComment", pc |-> "gotRFC", rfcId |-> rfcId, agentId |-> agentId,
            commentType |-> commentType, quotedText |-> quotedText,
            rfc |-> GetRFC(rfcId), agent |-> Null]
  IN /\ MayStart(c)
     /\ CommentsRequested < MaxComments
     /\ Begin(c)
     /\ UNCHANGED <<rfcs, latestVersions, history, agents, reviews, comments, rfcComments, parentChildMap, now, mode>>

\* addComment: the not-found check, then up to the await of storage.agents.getById
AddCommentAgent(p) ==
  /\ calls[p] # Idle
  /\ calls[p].op = "addComment"
  /\ calls[p].pc = "gotRFC"
  /\ IF calls[p].rfc = Null
     THEN Settle(p, "RFC not found")
     ELSE /\ calls' = [calls EXCEPT ![p].pc = "gotAgent", ![p].agent = GetAgent(calls[p].agentId)]
          /\ last' = last
  /\ UNCHANGED <<rfcs, latestVersions, history, agents, reviews, comments, rfcComments, parentChildMap, now, mode>>

\* the textReference addComment builds for an inline comment
TextReference(quotedText) == [quotedText |-> quotedText]

\* the rest of addComment: the checks on the agent and on the quoted text,
\* the comment object, storage.comments.create
AddCommentCreate(p) ==
  /\ calls[p] # Idle
  /\ calls[p].op = "addComment"
  /\ calls[p].pc = "gotAgent"
  /\ LET c == calls[p]
     IN IF c.agent = Null
        THEN Settle(p, "Agent not found") /\ UNCHANGED <<comments, rfcComments, parentChildMap>>
        ELSE IF ~MayComment(c.agent)
        THEN Settle(p, "does not have permission to comment") /\ UNCHANGED <<comments, rfcComments, parentChildMap>>
        ELSE IF c.commentType = "inline" /\ c.quotedText = <<>>
        THEN Settle(p, "Quoted text is required for inline comments") /\ UNCHANGED <<comments, rfcComments, parentChildMap>>
        ELSE IF c.commentType = "inline" /\ ~TextExists(c.rfc, c.quotedText)
        THEN Settle(p, "Quoted text not found in RFC content") /\ UNCHANGED <<comments, rfcComments, parentChildMap>>
        ELSE /\ StorageCreateComment(
                  CommentRecord(FreshCommentId, c.rfcId, c.rfc.version, c.agentId, c.commentType,
                                IF c.commentType = "inline" THEN TextReference(c.quotedText) ELSE Null,
                                NoParent, now))
             /\ Settle(p, "ok")
  /\ UNCHANGED <<rfcs, latestVersions, history, agents, reviews, now, mode>>

\* CommentService.replyToComment: validateReplyParams, then up to the await
\* of storage.comments.getById
ReplyToCommentStart(parentCommentId, agentId) ==
  LET c == [op |-> "replyToComment", pc |-> "gotParent", parentCommentId |-> parentCommentId,
            agentId |-> agentId, parentComment |-> GetComment(parentCommentId), agent |-> Null]
  IN /\ MayStart(c)
     /\ CommentsRequested < MaxComments
     /\ Begin(c)
     /\ UNCHANGED <<rfcs, latestVersions, history, agents, reviews, comments, rfcComments, parentChildMap, now, mode>>

\* replyToComment: the not-found check, then up to the await of storage.agents.getById
ReplyToCommentAgent(p) ==
  /\ calls[p] # Idle
  /\ calls[p].op = "replyToComment"
  /\ calls[p].pc = "gotParent"
  /\ IF calls[p].parentComment = Null
     THEN Settle(p, "Parent comment not found")
     ELSE /\ calls' = [calls EXCEPT ![p].pc = "gotAgent", ![p].agent = GetAgent(calls[p].agentId)]
          /\ last' = last
  /\ UNCHANGED <<rfcs, latestVersions, history, agents, reviews, comments, rfcComments, parentChildMap, now, mode>>

\* a reply that takes the version the document has now
CurrentVersion(parentComment) == GetRFC(parentComment.rfcId).version

\* the rfcVersion of the reply object: parentComment.rfcVersion
InheritedVersion(parentComment) == parentComment.rfcVersion

\* the rest of replyToComment
ReplyToCommentCreate(p) ==
  /\ calls[p] # Idle
  /\ calls[p].op = "replyToComment"
  /\ calls[p].pc = "gotAgent"
  /\ LET c == calls[p]
     IN IF c.agent = Null
        THEN Settle(p, "Agent not found") /\ UNCHANGED <<comments, rfcComments, parentChildMap>>
        ELSE IF ~MayComment(c.agent)
        THEN Settle(p, "does not have permission to comment") /\ UNCHANGED <<comments, rfcComments, parentChildMap>>
        ELSE /\ StorageCreateComment(
                  CommentRecord(FreshCommentId, c.parentComment.rfcId, InheritedVersion(c.parentComment),
                                c.agentId, "document_level", Null, c.parentCommentId, now))
             /\ Settle(p, "ok")
  /\ UNCHANGED <<rfcs, latestVersions, history, agents, reviews, now, mode>>

\* CommentService.resolveComment up to the await of storage.comments.getById
ResolveCommentStart(commentId, resolverId) ==
  LET c == [op |-> "resolveComment", pc |-> "gotComment", commentId |-> commentId,
            resolverId |-> resolverId, comment |-> GetComment(commentId), resolver |-> Null]
  IN /\ MayStart(c)
     /\ Begin(c)
     /\ UNCHANGED <<rfcs, latestVersions, history, agents, reviews, comments, rfcComments, parentChildMap, now, mode>>

\* resolveComment: the not-found check and the status check, then up to the
\* await of storage.agents.getById
ResolveCommentAgent(p) ==
  /\ calls[p] # Idle
  /\ calls[p].op = "resolveComment"
  /\ calls[p].pc = "gotComment"
  /\ IF calls[p].comment = Null
     THEN Settle(p, "Comment not found")
     ELSE IF ~IsOpen(calls[p].comment)
     THEN Settle(p, "Comment is already " \o calls[p].comment.status)
     ELSE /\ calls' = [calls EXCEPT ![p].pc = "gotAgent", ![p].resolver = GetAgent(calls[p].resolverId)]
          /\ last' = last
  /\ UNCHANGED <<rfcs, latestVersions, history, agents, reviews, comments, rfcComments, parentChildMap, now, mode>>

\* the comment object resolveComment stores
ResolvedComment(comment, resolverId) ==
  [comment EXCEPT !.status = "resolved", !.resolvedBy = resolverId]

\* the rest of resolveComment
ResolveCommentWrite(p) ==
  /\ calls[p] # Idle
  /\ calls[p].op = "resolveComment"
  /\ calls[p].pc = "gotAgent"
  /\ IF calls[p].resolver = Null
     THEN Settle(p, "Agent not found") /\ UNCHANGED <<comments, rfcComments, parentChildMap>>
     ELSE /\ StorageUpdateComment(ResolvedComment(calls[p].comment, calls[p].resolverId))
          /\ Settle(p, "ok")
  /\ UNCHANGED <<rfcs, latestVersions, history, agents, reviews, now, mode>>

\* CommentService.dismissComment up to the await of storage.comments.getById
DismissCommentStart(commentId, dismisserId) ==
  LET c == [op |-> "dismissComment", pc |-> "gotComment", commentId |-> commentId,
            dismisserId |-> dismisserId, comment |-> GetComment(commentId), dismisser |-> Null]
  IN /\ MayStart(c)
     /\ Begin(c)
     /\ UNCHANGED <<rfcs, latestVersions, history, agents, reviews, comments, rfcComments, parentChildMap, now, mode>>

\* dismissComment: the not-found check and the status check, then up to the
\* await of storage.agents.getById
DismissCommentAgent(p) ==
  /\ calls[p] # Idle
  /\ calls[p].op = "dismissComment"
  /\ calls[p].pc = "gotComment"
  /\ IF calls[p].comment = Null
     THEN Settle(p, "Comment not found")
     ELSE IF ~IsOpen(calls[p].comment)
     THEN Settle(p, "Comment is already " \o calls[p].comment.status)
     ELSE /\ calls' = [calls EXCEPT ![p].pc = "gotAgent", ![p].dismisser = GetAgent(calls[p].dismisserId)]
          /\ last' = last
  /\ UNCHANGED <<rfcs, latestVersions, history, agents, reviews, comments, rfcComments, parentChildMap, now, mode>>

\* the comment object dismissComment stores
DismissedComment(comment, dismisserId) ==
  [comment EXCEPT !.status = "dismissed", !.dismissedBy = dismisserId]

\* the rest of dismissComment
DismissCommentWrite(p) ==
  /\ calls[p] # Idle
  /\ calls[p].op = "dismissComment"
  /\ calls[p].pc = "gotAgent"
  /\ IF calls[p].dismisser = Null
     THEN Settle(p, "Agent not found") /\ UNCHANGED <<comments, rfcComments, parentChildMap>>
     ELSE /\ StorageUpdateComment(DismissedComment(calls[p].comment, calls[p].dismisserId))
          /\ Settle(p, "ok")
  /\ UNCHANGED <<rfcs, latestVersions, history, agents, reviews, now, mode>>

(***************************************************************************)
(* The document service under callers that overlap their calls freely      *)
(* (SpecDoc) and under callers that await each call before the next        *)
(* (SpecDocSerial).                                                        *)
(***************************************************************************)
EmptyStorage ==
  /\ rfcs = [id \in RFCIds |-> <<>>]
  /\ latestVersions = [id \in RFCIds |-> Null]
  /\ history = [id \in RFCIds |-> <<>>]
  /\ calls = [p \in CallIds |-> Idle]
  /\ last = "none"
  /\ now = 1

InitDoc ==
  /\ EmptyStorage
  /\ agents = [a \in AgentIds |-> Null]
  /\ reviews = <<>>
  /\ comments = [i \in CommentIds |-> Null]
  /\ rfcComments = [id \in RFCIds |-> <<>>]
  /\ parentChildMap = [i \in CommentIds |-> <<>>]

NextDoc ==
  \/ \E content \in Bodies : CreateRFC(1, content)
  \/ \E rfcId \in RFCIds, content \in Bodies : UpdateContentStart(rfcId, content)
  \/ \E p \in CallIds : UpdateContentWrite(p)
  \/ \E rfcId \in RFCIds, status \in {"in_review", "draft"} : UpdateStatusStart(rfcId, status)
  \/ \E p \in CallIds : UpdateStatusWrite(p)
  \/ \E rfcId \in RFCIds, r \in Replacements : ReplaceStringStart(rfcId, r[1], r[2], r[3])
  \/ \E p \in CallIds : ReplaceStringValidate(p)
  \/ \E p \in CallIds : ReplaceStringValidated(p)
  \/ \E p \in CallIds : ReplaceStringReplace(p)
  \/ \E p \in CallIds : ReplaceStringWrite(p)

InitDocFree == mode = "free" /\ InitDoc

InitDocSerial == mode = "serial" /\ InitDoc

SpecDoc == InitDocFree /\ [][NextDoc]_vars

SpecDocSerial == InitDocSerial /\ [][NextDoc]_vars

(***************************************************************************)
(* The status of one document: every status is requested of it, by         *)
(* callers that await each call before the next, while its content is      *)
(* updated.                                                                *)
(***************************************************************************)
InitStatusSerial == mode = "serial" /\ InitDoc

NextStatus ==
  \/ CreateRFC(1, <<"a">>)
  \/ \E status \in RFCStatuses : UpdateStatusStart(1, status)
  \/ \E p \in CallIds : UpdateStatusWrite(p)
  \/ \E content \in {<<"a">>, <<"b">>} : UpdateContentStart(1, content)
  \/ \E p \in CallIds : UpdateContentWrite(p)

SpecStatusSerial == InitStatusSerial /\ [][NextStatus]_vars

\* the same calls from callers that overlap them freely
InitStatusFree == mode = "free" /\ InitDoc

SpecStatus == InitStatusFree /\ [][NextStatus]_vars

(***************************************************************************)
(* The versions of one document under callers that overlap content         *)
(* updates, replacements and status changes freely.                        *)
(***************************************************************************)
NextVersions ==
  \/ CreateRFC(1, <<"a">>)
  \/ UpdateContentStart(1, <<"b">>)
  \/ \E p \in CallIds : UpdateContentWrite(p)
  \/ \E status \in {"in_review", "draft"} : UpdateStatusStart(1, status)
  \/ \E p \in CallIds : UpdateStatusWrite(p)
  \/ ReplaceStringStart(1, <<"b">>, <<"a">>, FALSE)
  \/ \E p \in CallIds : ReplaceStringValidate(p)
  \/ \E p \in CallIds : ReplaceStringValidated(p)
  \/ \E p \in CallIds : ReplaceStringReplace(p)
  \/ \E p \in CallIds : ReplaceStringWrite(p)

InitVersions == mode = "free" /\ InitDoc

SpecVersions == InitVersions /\ [][NextVersions]_vars

(***************************************************************************)
(* replaceString on one document, with every searched text of up to        *)
(* MaxLen characters, from callers that await each call before the next.   *)
(***************************************************************************)
\* the replacement texts callers pass: shorter than, as long as and longer
\* than a searched character, the last one holding the searched text again
NewTexts == {<<>>, <<"b">>, <<"a", "a">>}

NextReplace ==
  \/ \E content \in {<<"a", "a">>, <<"a", "b", "a">>} : CreateRFC(1, content)
  \/ \E oldText \in Strings(MaxLen), newText \in NewTexts, replaceAll \in BOOLEAN :
       ReplaceStringStart(1, oldText, newText, replaceAll)
  \/ \E p \in CallIds : ReplaceStringValidate(p)
  \/ \E p \in CallIds : ReplaceStringValidated(p)
  \/ \E p \in CallIds : ReplaceStringReplace(p)
  \/ \E p \in CallIds : ReplaceStringWrite(p)

InitReplaceSerial == mode = "serial" /\ InitDoc

SpecReplaceSerial == InitReplaceSerial /\ [][NextReplace]_vars

(***************************************************************************)
(* The review service on two documents, with two agents that may comment   *)
(* ("fe", "be"), one that may not ("ro") and an id that names no agent     *)
(* ("nobody").                                                             *)
(***************************************************************************)
AgentTypes == {"lead", "frontend", "backend", "security", "database", "devops"}

Flags == {"canEdit", "canComment", "canApprove"}

\* the capabilities argument of createAgent, a Partial<Agent['capabilities']>:
\* any of the flags, each true or false; the empty one stands for an
\* argument left out as well
PartialCapabilities == UNION {[given -> BOOLEAN] : given \in SUBSET Flags}

\* defaults that give every role what LEAD gets
AllCapabilities(type) == [canEdit |-> TRUE, canComment |-> TRUE, canApprove |-> TRUE]

\* AgentService.getDefaultCapabilities
GetDefaultCapabilities(type) ==
  IF type = "lead"
  THEN [canEdit |-> TRUE, canComment |-> TRUE, canApprove |-> TRUE]
  ELSE [canEdit |-> FALSE, canComment |-> TRUE, canApprove |-> FALSE]

\* the object spread { ...defaults, ...overrides }
Spread(defaults, overrides) ==
  [k \in DOMAIN defaults \cup DOMAIN overrides |->
     IF k \in DOMAIN overrides THEN overrides[k] ELSE defaults[k]]

\* the ids randomUUID gives to agents, in the order it gives them
AgentIdOrder == <<"fe", "be", "ro", "nobody">>

CreatedAgents == Cardinality({a \in AgentIds : agents[a] # Null})

\* AgentService.createAgent up to its await of storage.agents.create, which
\* has stored the agent by then
CreateAgentStart(type, name, capabilities) ==
  /\ MayStart([op |-> "createAgent"])
  /\ CreatedAgents < MaxAgents
  /\ IF name = ""
     THEN /\ SettleAtOnce("Agent name is required")
          /\ agents' = agents
     ELSE LET id == AgentIdOrder[CreatedAgents + 1]
          IN /\ agents' = [agents EXCEPT ![id] =
                             [id |-> id, type |-> type,
                              capabilities |-> Spread(GetDefaultCapabilities(type), capabilities)]]
             /\ Begin([op |-> "createAgent", pc |-> "created", type |-> type,
                       capabilities |-> capabilities, id |-> id])
  /\ UNCHANGED <<rfcs, latestVersions, history, reviews, comments, rfcComments, parentChildMap, now, mode>>

\* the rest of createAgent: it returns the stored agent
CreateAgentReturn(p) ==
  /\ calls[p] # Idle
  /\ calls[p].op = "createAgent"
  /\ Settle(p, "ok")
  /\ UNCHANGED <<rfcs, latestVersions, history, agents, reviews, comments, rfcComments,
                 parentChildMap, now, mode>>

NextAgents ==
  \/ \E type \in AgentTypes, name \in {"", "n"}, capabilities \in PartialCapabilities :
       CreateAgentStart(type, name, capabilities)
  \/ \E p \in CallIds : CreateAgentReturn(p)

InitAgents == mode = "serial" /\ InitDoc

SpecAgents == InitAgents /\ [][NextAgents]_vars

\* the agent createAgent stores for a role with these capabilities
AgentRecord(id, type, canEdit, canComment, canApprove) ==
  [id |-> id, type |-> type,
   capabilities |-> [canEdit |-> canEdit, canComment |-> canComment, canApprove |-> canApprove]]

\* the state after createRFC of documents 1 and 2 and createAgent of fe, be and ro
InitPopulated ==
  /\ now = 1
  /\ rfcs = [id \in RFCIds |-> <<FirstVersion(id, <<"a">>)>>]
  /\ latestVersions = [id \in RFCIds |-> FirstVersion(id, <<"a">>)]
  /\ history = [id \in RFCIds |-> <<<<"a">>>>]
  /\ agents = [a \in AgentIds |->
                 CASE a = "fe" -> AgentRecord("fe", "frontend", FALSE, TRUE, FALSE)
                   [] a = "be" -> AgentRecord("be", "backend", FALSE, TRUE, FALSE)
                   [] a = "ro" -> AgentRecord("ro", "devops", FALSE, FALSE, FALSE)
                   [] OTHER    -> Null]
  /\ reviews = <<>>
  /\ comments = [i \in CommentIds |-> Null]
  /\ rfcComments = [id \in RFCIds |-> <<>>]
  /\ parentChildMap = [i \in CommentIds |-> <<>>]
  /\ calls = [p \in CallIds |-> Idle]
  /\ last = "none"

\* the reviewer lists callers pass to requestReview
RequestedReviewers == {<<>>, <<"fe">>, <<"fe", "be">>, <<"be", "ro">>, <<"nobody">>}

\* the reviewer lists callers pass to addReviewersToActiveReview
AddedReviewers == {<<"be">>, <<"fe", "be", "ro">>}

\* the comment lists reviewers pass to submitReview: none, one comment on
\* document 1, comments on documents 1 and 2
SubmittedComments ==
  {<<>>,
   <<CommentRecord(0, 1, 1, "fe", "document_level", Null, NoParent, 1)>>,
   <<CommentRecord(0, 1, 1, "fe", "document_level", Null, NoParent, 1),
     CommentRecord(0, 2, 1, "fe", "document_level", Null, NoParent, 1)>>}

\* the review service called with documents from rfcIds, agents from
\* agentIds, and reviewer and comment lists from the given sets
ReviewCalls(rfcIds, agentIds, requested, added, submitted) ==
  \/ \E rfcId \in rfcIds, reviewerAgentIds \in requested :
       RequestReviewStart(rfcId, reviewerAgentIds, 0)
  \/ \E p \in CallIds : RequestReviewList(p)
  \/ \E p \in CallIds : RequestReviewFind(p)
  \/ \E p \in CallIds : RequestReviewCheck(p)
  \/ \E p \in CallIds : RequestReviewAgent(p)
  \/ \E id \in 1..MaxReviews, agentId \in agentIds, cs \in submitted :
       SubmitReviewStart(id, agentId, cs)
  \/ \E p \in CallIds : SubmitReviewCheck(p)
  \/ \E p \in CallIds : SubmitReviewNext(p)
  \/ \E id \in 1..MaxReviews, agentId \in agentIds : MarkReviewInProgressStart(id, agentId)
  \/ \E p \in CallIds : MarkReviewInProgressWrite(p)
  \/ \E rfcId \in rfcIds, newReviewerIds \in added : AddReviewersStart(rfcId, newReviewerIds)
  \/ \E p \in CallIds : AddReviewersFind(p)
  \/ \E p \in CallIds : AddReviewersCheck(p)
  \/ \E p \in CallIds : AddReviewersAgent(p)

\* callers that await each call before the next
NextReviewSerial ==
  ReviewCalls(RFCIds, {"fe", "be"}, RequestedReviewers, AddedReviewers, SubmittedComments)

\* callers that overlap their calls freely, on document 1
NextReview ==
  ReviewCalls({1}, {"fe", "be"}, {<<"fe">>, <<"fe", "be">>}, {<<"be">>},
              {<<>>, <<CommentRecord(0, 1, 1, "fe", "document_level", Null, NoParent, 1)>>})

InitReviewSerial == mode = "serial" /\ InitPopulated

InitReviewFree == mode = "free" /\ InitPopulated

\* callers that overlap only the submitReview calls of different reviewers of one review request
InitReviewSubmit == mode = "submit" /\ InitPopulated

SpecReviewSerial == InitReviewSerial /\ [][NextReviewSerial]_vars

SpecReview == InitReviewFree /\ [][NextReview]_vars

SpecReviewSubmit == InitReviewSubmit /\ [][NextReview]_vars

(***************************************************************************)
(* The comment service and the review service on document 1, whose content *)
(* an editor may change, under callers that await each call before the     *)
(* next.                                                                   *)
(***************************************************************************)
\* the comment object addComment or replyToComment returned for a stored comment
AsCreated(comment) == [comment EXCEPT !.status = "open", !.resolvedBy = "", !.dismissedBy = ""]

\* an inline comment a reviewer builds for submitReview, quoting "b"
QuotingB == CommentRecord(0, 1, 1, "fe", "inline", TextReference(<<"b">>), NoParent, 1)

\* the comment lists reviewers pass to submitReview: none, a comment they
\* built, a comment object they got back from addComment or replyToComment
ReviewerComments ==
  {<<>>, <<QuotingB>>} \cup {<<AsCreated(comments[i])>> : i \in CreatedCommentIds}

\* the comment service is asked for one comment less than MaxComments here
FewComments == CommentsRequested < MaxComments - 1

NextComment ==
  \/ /\ FewComments
     /\ \E agentId \in {"fe", "ro"}, commentType \in {"inline", "document_level"},
           quotedText \in {<<"a">>, <<"b">>} :
          AddCommentStart(1, agentId, commentType, quotedText)
  \/ \E p \in CallIds : AddCommentAgent(p)
  \/ \E p \in CallIds : AddCommentCreate(p)
  \/ /\ FewComments
     /\ \E parentCommentId \in CommentIds, agentId \in {"fe", "ro"} :
          ReplyToCommentStart(parentCommentId, agentId)
  \/ \E p \in CallIds : ReplyToCommentAgent(p)
  \/ \E p \in CallIds : ReplyToCommentCreate(p)
  \/ \E commentId \in CommentIds, resolverId \in {"be", "nobody"} :
       ResolveCommentStart(commentId, resolverId)
  \/ \E p \in CallIds : ResolveCommentAgent(p)
  \/ \E p \in CallIds : ResolveCommentWrite(p)
  \/ \E commentId \in CommentIds : DismissCommentStart(commentId, "be")
  \/ \E p \in CallIds : DismissCommentAgent(p)
  \/ \E p \in CallIds : DismissCommentWrite(p)
  \/ UpdateContentStart(1, <<"b">>)
  \/ \E p \in CallIds : UpdateContentWrite(p)
  \/ RequestReviewStart(1, <<"fe">>, 0)
  \/ \E p \in CallIds : RequestReviewList(p)
  \/ \E p \in CallIds : RequestReviewFind(p)
  \/ \E p \in CallIds : RequestReviewCheck(p)
  \/ \E p \in CallIds : RequestReviewAgent(p)
  \/ \E cs \in ReviewerComments : SubmitReviewStart(1, "fe", cs)
  \/ \E p \in CallIds : SubmitReviewCheck(p)
  \/ \E p \in CallIds : SubmitReviewNext(p)

InitCommentSerial == mode = "serial" /\ InitPopulated

SpecCommentSerial == InitCommentSerial /\ [][NextComment]_vars

(***************************************************************************)
(* Review requests with a deadline, from callers that await each call      *)
(* before the next, while the clock advances.  A call reads the clock      *)
(* (new Date()) when it reaches the line that uses it.                     *)
(***************************************************************************)
\* time passes between two steps of the program
Tick ==
  /\ now < MaxTime
  /\ now' = now + 1
  /\ UNCHANGED <<rfcs, latestVersions, history, agents, reviews, comments, rfcComments, parentChildMap, calls, last, mode>>

NextDeadline ==
  \/ Tick
  \/ \E deadline \in {0, 2} : RequestReviewStart(1, <<"fe", "be">>, deadline)
  \/ \E p \in CallIds : RequestReviewList(p)
  \/ \E p \in CallIds : RequestReviewFind(p)
  \/ \E p \in CallIds : RequestReviewCheck(p)
  \/ \E p \in CallIds : RequestReviewAgent(p)
  \/ \E id \in 1..MaxReviews, agentId \in {"fe", "be"} :
       SubmitReviewStart(id, agentId, <<CommentRecord(0, 1, 1, agentId, "document_level", Null, NoParent, 1)>>)
  \/ \E p \in CallIds : SubmitReviewCheck(p)
  \/ \E p \in CallIds : SubmitReviewNext(p)
  \/ \E id \in 1..MaxReviews : MarkReviewInProgressStart(id, "be")
  \/ \E p \in CallIds : MarkReviewInProgressWrite(p)

InitDeadlineSerial == mode = "serial" /\ InitPopulated

SpecDeadlineSerial == InitDeadlineSerial /\ [][NextDeadline]_vars

(***************************************************************************)
(* The creation of comments and replies on documents 1 and 2, while an     *)
(* editor changes the content of document 1; callers await each call       *)
(* before the next.                                                        *)
(***************************************************************************)
NextDiscussion ==
  \/ \E agentId \in {"fe", "ro", "nobody"}, commentType \in {"inline", "document_level"},
        quotedText \in {<<>>, <<"a">>, <<"b">>} :
       AddCommentStart(1, agentId, commentType, quotedText)
  \/ \E agentId \in {"fe", "ro"}, commentType \in {"inline", "document_level"} :
       AddCommentStart(2, agentId, commentType, <<"a">>)
  \/ \E p \in CallIds : AddCommentAgent(p)
  \/ \E p \in CallIds : AddCommentCreate(p)
  \/ \E parentCommentId \in CommentIds, agentId \in {"fe", "ro", "nobody"} :
       ReplyToCommentStart(parentCommentId, agentId)
  \/ \E p \in CallIds : ReplyToCommentAgent(p)
  \/ \E p \in CallIds : ReplyToCommentCreate(p)
  \/ UpdateContentStart(1, <<"b">>)
  \/ \E p \in CallIds : UpdateContentWrite(p)

InitDiscussionSerial == mode = "serial" /\ InitPopulated

SpecDiscussionSerial == InitDiscussionSerial /\ [][NextDiscussion]_vars

(***************************************************************************)
(* The closing of comments: comments and replies on document 1 that "be"   *)
(* resolves and "fe" dismisses; callers await each call before the next.   *)
(***************************************************************************)
NextClosing ==
  \/ AddCommentStart(1, "fe", "document_level", <<>>)
  \/ \E p \in CallIds : AddCommentAgent(p)
  \/ \E p \in CallIds : AddCommentCreate(p)
  \/ \E parentCommentId \in CommentIds : ReplyToCommentStart(parentCommentId, "be")
  \/ \E p \in CallIds : ReplyToCommentAgent(p)
  \/ \E p \in CallIds : ReplyToCommentCreate(p)
  \/ \E commentId \in CommentIds, resolverId \in {"be", "nobody"} :
       ResolveCommentStart(commentId, resolverId)
  \/ \E p \in CallIds : ResolveCommentAgent(p)
  \/ \E p \in CallIds : ResolveCommentWrite(p)
  \/ \E commentId \in CommentIds, dismisserId \in {"fe", "nobody"} :
       DismissCommentStart(commentId, dismisserId)
  \/ \E p \in CallIds : DismissCommentAgent(p)
  \/ \E p \in CallIds : DismissCommentWrite(p)

InitClosingSerial == mode = "serial" /\ InitPopulated

SpecClosingSerial == InitClosingSerial /\ [][NextClosing]_vars

(***************************************************************************)
(* addComment calls on documents 1 and 2 by agents that may comment, from  *)
(* callers that overlap their calls freely.                                *)
(***************************************************************************)
NextCommenting ==
  \/ \E rfcId \in RFCIds, agentId \in {"fe", "be"}, commentType \in {"inline", "document_level"} :
       AddCommentStart(rfcId, agentId, commentType, <<"a">>)
  \/ \E p \in CallIds : AddCommentAgent(p)
  \/ \E p \in CallIds : AddCommentCreate(p)

InitCommenting == mode = "free" /\ InitPopulated

SpecCommenting == InitCommenting /\ [][NextCommenting]_vars

(***************************************************************************)
(* Threads that grow while the clock advances: comments on document 1 and  *)
(* replies to any comment, from callers that await each call before the    *)
(* next.                                                                   *)
(***************************************************************************)
NextThreads ==
  \/ Tick
  \/ AddCommentStart(1, "fe", "document_level", <<>>)
  \/ \E p \in CallIds : AddCommentAgent(p)
  \/ \E p \in CallIds : AddCommentCreate(p)
  \/ \E parentCommentId \in CommentIds : ReplyToCommentStart(parentCommentId, "be")
  \/ \E p \in CallIds : ReplyToCommentAgent(p)
  \/ \E p \in CallIds : ReplyToCommentCreate(p)

InitThreadsSerial == mode = "serial" /\ InitPopulated

SpecThreadsSerial == InitThreadsSerial /\ [][NextThreads]_vars

(***************************************************************************)
(* Comments a reviewer hands to submitReview, which stores them as they    *)
(* are: the reviewer chooses their ids and their parentCommentId, so the   *)
(* stored parent pointers may form a cycle or name a comment that is not   *)
(* stored.  The reviewer submits to the first review request; callers      *)
(* await each call before the next.                                        *)
(***************************************************************************)
\* comments with a made-up id 0 or 1 and any parent among NoParent, 0, 1 and
\* 2 (no comment 2 is ever stored here)
MadeUpComments ==
  {CommentRecord(id, 1, 1, "fe", "document_level", Null, parent, 1) :
     id \in {0, 1}, parent \in {NoParent, 0, 1, 2}}

\* the comment lists the reviewer passes: one or two made-up comments
MadeUpLists == {<<c>> : c \in MadeUpComments} \cup {<<c, d>> : c, d \in MadeUpComments}

NextSubmitted ==
  \/ RequestReviewStart(1, <<"fe">>, 0)
  \/ \E p \in CallIds : RequestReviewList(p)
  \/ \E p \in CallIds : RequestReviewFind(p)
  \/ \E p \in CallIds : RequestReviewCheck(p)
  \/ \E p \in CallIds : RequestReviewAgent(p)
  \/ \E cs \in MadeUpLists : SubmitReviewStart(1, "fe", cs)
  \/ \E p \in CallIds : SubmitReviewCheck(p)
  \/ \E p \in CallIds : SubmitReviewNext(p)

InitSubmittedSerial == mode = "serial" /\ InitPopulated

SpecSubmittedSerial == InitSubmittedSerial /\ [][NextSubmitted]_vars

(***************************************************************************)
(* Reviewer lists that name an agent twice, in requestReview and in        *)
(* addReviewersToActiveReview on document 1; callers await each call       *)
(* before the next.                                                        *)
(***************************************************************************)
NextReviewers ==
  ReviewCalls({1}, {"fe", "be"}, {<<"fe">>, <<"fe", "fe">>, <<"fe", "be">>},
              {<<"be", "be">>, <<"fe", "be">>},
              {<<>>, <<CommentRecord(0, 1, 1, "fe", "document_level", Null, NoParent, 1)>>})

InitReviewersSerial == mode = "serial" /\ InitPopulated

SpecReviewersSerial == InitReviewersSerial /\ [][NextReviewers]_vars

(***************************************************************************)
(* Replies to comments of document 1 that are inline or document-level,    *)
(* open, resolved or dismissed (comment 1 is the one that gets closed),    *)
(* while an editor moves the document to later versions and the clock      *)
(* advances; callers await each call before the next.                      *)
(***************************************************************************)
NextReplies ==
  \/ Tick
  \/ /\ FewComments
     /\ \E commentType \in {"inline", "document_level"} : AddCommentStart(1, "fe", commentType, <<"a">>)
  \/ \E p \in CallIds : AddCommentAgent(p)
  \/ \E p \in CallIds : AddCommentCreate(p)
  \/ /\ FewComments
     /\ \E parentCommentId \in CommentIds : ReplyToCommentStart(parentCommentId, "be")
  \/ \E p \in CallIds : ReplyToCommentAgent(p)
  \/ \E p \in CallIds : ReplyToCommentCreate(p)
  \/ ResolveCommentStart(1, "be")
  \/ \E p \in CallIds : ResolveCommentAgent(p)
  \/ \E p \in CallIds : ResolveCommentWrite(p)
  \/ DismissCommentStart(1, "fe")
  \/ \E p \in CallIds : DismissCommentAgent(p)
  \/ \E p \in CallIds : DismissCommentWrite(p)
  \/ UpdateContentStart(1, <<"a", "b">>)
  \/ \E p \in CallIds : UpdateContentWrite(p)

InitRepliesSerial == mode = "serial" /\ InitPopulated

SpecRepliesSerial == InitRepliesSerial /\ [][NextReplies]_vars

(***************************************************************************)
(* Content updates and replacements on one document that is taken through  *)
(* every status, while the clock advances; callers await each call before  *)
(* the next.                                                               *)
(***************************************************************************)
NextFrame ==
  \/ Tick
  \/ CreateRFC(1, <<"a">>)
  \/ \E status \in RFCStatuses : UpdateStatusStart(1, status)
  \/ \E p \in CallIds : UpdateStatusWrite(p)
  \/ UpdateContentStart(1, <<"b">>)
  \/ \E p \in CallIds : UpdateContentWrite(p)
  \/ ReplaceStringStart(1, <<"b">>, <<"a">>, FALSE)
  \/ \E p \in CallIds : ReplaceStringValidate(p)
  \/ \E p \in CallIds : ReplaceStringValidated(p)
  \/ \E p \in CallIds : ReplaceStringReplace(p)
  \/ \E p \in CallIds : ReplaceStringWrite(p)

InitFrameSerial == mode = "serial" /\ InitDoc

SpecFrameSerial == InitFrameSerial /\ [][NextFrame]_vars

(***************************************************************************)
(* One document that is sent to review (draft -> in_review) while its      *)
(* content is updated, by callers that overlap their calls freely.         *)
(***************************************************************************)
NextSending ==
  \/ CreateRFC(1, <<"a">>)
  \/ UpdateStatusStart(1, "in_review")
  \/ \E p \in CallIds : UpdateStatusWrite(p)
  \/ \E content \in {<<"a">>, <<"b">>} : UpdateContentStart(1, content)
  \/ \E p \in CallIds : UpdateContentWrite(p)

InitSending == mode = "free" /\ InitDoc

SpecSending == InitSending /\ [][NextSending]_vars

(***************************************************************************)
(* Comments on document 1 that "be" resolves and "fe" dismisses, by        *)
(* callers that overlap their calls freely.                                *)
(***************************************************************************)
NextClosingOverlap ==
  \/ AddCommentStart(1, "fe", "document_level", <<>>)
  \/ \E p \in CallIds : AddCommentAgent(p)
  \/ \E p \in CallIds : AddCommentCreate(p)
  \/ \E commentId \in CommentIds : ResolveCommentStart(commentId, "be")
  \/ \E p \in CallIds : ResolveCommentAgent(p)
  \/ \E p \in CallIds : ResolveCommentWrite(p)
  \/ \E commentId \in CommentIds : DismissCommentStart(commentId, "fe")
  \/ \E p \in CallIds : DismissCommentAgent(p)
  \/ \E p \in CallIds : DismissCommentWrite(p)

InitClosingOverlap == mode = "free" /\ InitPopulated

SpecClosingOverlap == InitClosingOverlap /\ [][NextClosingOverlap]_vars

(***************************************************************************)
(* Versioning of document content                                          *)
(***************************************************************************)
\* the content updates (updateContent and replaceString) that have succeeded on document id
SuccessfulUpdates(id) == Len(history[id]) - 1

\* C1: when calls are made one at a time, a document that has seen N
\* successful content updates is at version 1 + N, and getByVersion returns,
\* for every k from 1 to that version, a snapshot holding the content that
\* was written when version k was created.
VersionsCountUpdatesAndKeepContent ==
  \A id \in RFCIds : GetRFC(id) # Null =>
    /\ GetRFC(id).version = 1 + SuccessfulUpdates(id)
    /\ \A k \in 1..GetRFC(id).version :
         /\ GetByVersion(id, k) # Null
         /\ GetByVersion(id, k).content = history[id][k]

\* two content updates on top of a status change made at version 1
SerialUpdatesWitness ==
  \E id \in RFCIds :
    /\ mode = "serial"
    /\ GetRFC(id) # Null
    /\ GetRFC(id).version = 3
    /\ SuccessfulUpdates(id) = 2
    /\ GetByVersion(id, 1).status = "in_review"
    /\ GetByVersion(id, 2).content # GetByVersion(id, 3).content

\* C2: content updates that overlap do not both win: once they have settled,
\* N successful updates have taken the document to version 1 + N.
OverlappingUpdatesSerialize ==
  \A id \in RFCIds :
    (GetRFC(id) # Null /\ NoCallInFlight) => GetRFC(id).version = 1 + SuccessfulUpdates(id)

(***************************************************************************)
(* Status transitions                                                      *)
(***************************************************************************)
\* the transitions the specification allows, as <<from, to>>
AllowedTransitions ==
  {<<"draft", "in_review">>, <<"draft", "rejected">>,
   <<"in_review", "approved">>, <<"in_review", "rejected">>, <<"in_review", "draft">>,
   <<"approved", "superseded">>,
   <<"rejected", "draft">>}

\* the updateStatus call in slot p, made when the document's current version was rfc, settles
UpdateStatusSettles(p, rfc) ==
  /\ calls[p] # Idle
  /\ calls[p].op = "updateStatus"
  /\ calls[p].existingRFC = rfc
  /\ calls'[p] = Idle

\* C6: an updateStatus call made on a document whose current status is
\* `from`, asking for `to`, throws the invalid-transition error and changes
\* nothing of the document when <<from, to>> is not an allowed transition
\* (same-state pairs included), and succeeds when it is.
TransitionTableIsExhaustive ==
  [][\A p \in CallIds : \A id \in RFCIds : \A k \in 1..MaxVersion :
       LET rfc == GetByVersion(id, k)
       IN (rfc # Null /\ UpdateStatusSettles(p, rfc)) =>
            IF <<rfc.status, calls[p].status>> \in AllowedTransitions
            THEN /\ last' = "ok"
                 /\ GetRFC(id)'.status = calls[p].status
            ELSE /\ last' = "Invalid status transition"
                 /\ rfcs' = rfcs
                 /\ latestVersions' = latestVersions]_vars

\* a superseded document has just refused a transition
RefusedTransitionWitness ==
  /\ GetRFC(1) # Null
  /\ GetRFC(1).status = "superseded"
  /\ last = "Invalid status transition"

(***************************************************************************)
(* Review completion                                                       *)
(***************************************************************************)
ReviewIds == 1..Len(reviews)

\* ReviewService.isReviewComplete
IsReviewComplete(id) == reviews[id].completedAt # 0

\* ReviewService.getReviewStatus
GetReviewStatus(id) == reviews[id].reviewStatuses

\* C3: when calls are made one at a time, isReviewComplete(r) is true
\* exactly when every entry of getReviewStatus(r) is COMPLETED.
CompleteIffEveryReviewerCompleted ==
  \A r \in ReviewIds :
    IsReviewComplete(r) <=> (\A a \in DOMAIN GetReviewStatus(r) : GetReviewStatus(r)[a] = "completed")

\* a review request that two reviewers have completed, and one that a reviewer has only started
CompleteReviewWitness ==
  /\ mode = "serial"
  /\ \E r \in ReviewIds :
       /\ IsReviewComplete(r)
       /\ Cardinality(DOMAIN GetReviewStatus(r)) = 2
  /\ \E r \in ReviewIds :
       /\ ~IsReviewComplete(r)
       /\ \E a, b \in DOMAIN GetReviewStatus(r) :
            GetReviewStatus(r)[a] = "completed" /\ GetReviewStatus(r)[b] = "in_progress"

\* the step sets completed-at of r, as the last reviewer's status becomes COMPLETED
StampedWithLastReviewer(r) ==
  /\ reviews[r].completedAt = 0
  /\ reviews'[r].completedAt # 0
  /\ \E a \in DOMAIN reviews[r].reviewStatuses :
       /\ reviews[r].reviewStatuses[a] # "completed"
       /\ reviews'[r].reviewStatuses[a] = "completed"
  /\ \A a \in DOMAIN reviews'[r].reviewStatuses : reviews'[r].reviewStatuses[a] = "completed"

\* C4: completed-at of a review request is set exactly once, in the step in
\* which its last reviewer becomes COMPLETED, and once set it is never
\* cleared and never assigned again.
CompletedAtStampedOnce ==
  [][\A r \in ReviewIds :
       /\ (reviews[r].completedAt = 0 /\ reviews'[r].completedAt # 0) => StampedWithLastReviewer(r)
       /\ reviews[r].completedAt # 0 =>
            /\ reviews'[r].completedAt = reviews[r].completedAt
            /\ reviews'[r].stamps = reviews[r].stamps]_vars

\* C5: when submitReview calls of different reviewers of a review request
\* overlap, no COMPLETED status is lost, and completed-at is assigned once:
\* it is set exactly when every listed reviewer is COMPLETED.
OverlappingSubmissionsComplete ==
  /\ [](\A r \in ReviewIds :
         /\ reviews[r].completedAt # 0 <=>
              (\A a \in DOMAIN reviews[r].reviewStatuses : reviews[r].reviewStatuses[a] = "completed")
         /\ reviews[r].stamps = IF reviews[r].completedAt # 0 THEN 1 ELSE 0)
  /\ [][\A r \in ReviewIds : \A a \in DOMAIN reviews[r].reviewStatuses :
          reviews[r].reviewStatuses[a] = "completed" => reviews'[r].reviewStatuses[a] = "completed"]_vars

\* two reviewers' submissions are both past their checks and storing comments
OverlappingSubmissionsWitness ==
  /\ mode = "submit"
  /\ \E p, q \in CallIds :
       /\ calls[p] # Idle /\ calls[q] # Idle
       /\ calls[p].op = "submitReview" /\ calls[q].op = "submitReview"
       /\ calls[p].pc = "storedComment" /\ calls[q].pc = "storedComment"
       /\ calls[p].agentId # calls[q].agentId
       /\ calls[p].reviewRequest = calls[q].reviewRequest

(***************************************************************************)
(* One active review request per document                                  *)
(***************************************************************************)
\* the review requests of a document that have no completed-at
ActiveReviews(rfcId) ==
  {r \in ReviewIds : reviews[r].rfcId = rfcId /\ reviews[r].completedAt = 0}

ReviewsOf(rfcId) == {r \in ReviewIds : reviews[r].rfcId = rfcId}

\* C7: when calls are made one at a time, a document never has two review
\* requests without completed-at; while it has one, no step creates a review
\* request for it, and a requestReview call that reaches the check is
\* rejected with the active-review conflict error.
OneActiveReviewWhenSerial ==
  /\ [](\A d \in RFCIds : Cardinality(ActiveReviews(d)) <= 1)
  /\ [][\A d \in RFCIds : ActiveReviews(d) # {} =>
          /\ ReviewsOf(d)' = ReviewsOf(d)
          /\ \A p \in CallIds :
               (calls[p] # Idle /\ calls[p].op = "requestReview" /\ calls[p].rfcId = d
                  /\ calls'[p] = Idle)
               => last' = "already has an active review request"]_vars

\* a second round on document 1 is active and a repeated request was just refused
RefusedRequestWitness ==
  /\ mode = "serial"
  /\ last = "already has an active review request"
  /\ Cardinality(ReviewsOf(1)) = 2
  /\ Cardinality(ActiveReviews(1)) = 1

\* C8: two requestReview calls for a document that overlap do not both
\* succeed: the document never has two review requests without completed-at.
OverlappingRequestsLeaveOneActive ==
  \A d \in RFCIds : Cardinality(ActiveReviews(d)) <= 1

(***************************************************************************)
(* Comments                                                                *)
(***************************************************************************)
\* the stored comments
StoredComments == {comments[i] : i \in {j \in CommentIds : comments[j] # Null}}

\* C9: in every reachable state, every stored comment of type inline,
\* whether addComment stored it or submitReview did, records a quotedText
\* that is a literal substring of the content of
\* getByVersion(c.rfcId, c.rfcVersion), the version it was made against.
InlineCommentsQuoteTheirVersion ==
  \A c \in StoredComments :
    c.type = "inline" =>
      /\ c.textReference # Null
      /\ GetByVersion(c.rfcId, c.rfcVersion) # Null
      /\ Includes(GetByVersion(c.rfcId, c.rfcVersion).content, c.textReference.quotedText)

\* C10: a comment leaves status open at most once: in every step a stored
\* comment that is resolved or dismissed keeps its status, whatever the
\* operation (resolveComment, dismissComment, replyToComment, submitReview
\* carrying a comment with the same id), and no stored comment is removed.
ClosedCommentsStayClosed ==
  [][\A i \in CommentIds :
       comments[i] # Null =>
         /\ comments'[i] # Null
         /\ comments[i].status \in {"resolved", "dismissed"} =>
              comments'[i].status = comments[i].status]_vars

(***************************************************************************)
(* Versions and status                                                     *)
(***************************************************************************)
\* the call in slot p, a mutation of document id, settles with success
MutationSucceeds(p, id, ops) ==
  /\ calls[p] # Idle
  /\ calls[p].op \in ops
  /\ calls[p].rfcId = id
  /\ calls'[p] = Idle
  /\ last' = "ok"

\* the version numbers recorded for document id
RecordedVersions(id) == {rfcs[id][i].version : i \in 1..Len(rfcs[id])}

\* C11: every successful mutation of a document, of its content
\* (updateContent, replaceString) or of its status (updateStatus), takes the
\* document's version up by exactly 1 and leaves the previous version
\* retrievable by its (id, version) pair.
EveryMutationMakesAVersion ==
  [][\A p \in CallIds : \A id \in RFCIds :
       MutationSucceeds(p, id, {"updateContent", "replaceString", "updateStatus"}) =>
         /\ GetRFC(id)'.version = GetRFC(id).version + 1
         /\ \E k \in 1..MaxVersion :
              /\ k = GetRFC(id).version
              /\ GetByVersion(id, k)' = GetRFC(id)]_vars

\* C12: a successful updateStatus changes only the status of the document:
\* the current version number, the content and the set of recorded version
\* numbers are after the call what they were before it.
StatusUpdateKeepsVersionAndContent ==
  [][\A p \in CallIds : \A id \in RFCIds :
       MutationSucceeds(p, id, {"updateStatus"}) =>
         /\ GetRFC(id)'.version = GetRFC(id).version
         /\ GetRFC(id)'.content = GetRFC(id).content
         /\ RecordedVersions(id)' = RecordedVersions(id)
         /\ Len(rfcs[id])' = Len(rfcs[id])]_vars

\* a document at version 2 whose status was changed at that version
StatusChangedAtVersionTwoWitness ==
  /\ GetRFC(1) # Null
  /\ last = "ok"
  /\ GetRFC(1).version = 2
  /\ GetRFC(1).status = "in_review"
  /\ GetByVersion(1, 1).status = "draft"
  /\ RecordedVersions(1) = {1, 2}

\* C13: SUPERSEDED is terminal: a document whose current status is
\* superseded has that current status in every later state, whatever
\* operations follow.
SupersededIsTerminal ==
  [][\A id \in RFCIds :
       (GetRFC(id) # Null /\ GetRFC(id).status = "superseded") =>
         GetRFC(id)'.status = "superseded"]_vars

(***************************************************************************)
(* Who may submit, and when                                                *)
(***************************************************************************)
\* the submitReview call in slot p is at its checks, on a review request
\* that agentId may not submit to: not listed, or listed and already completed
IneligibleSubmission(p) ==
  /\ calls[p] # Idle
  /\ calls[p].op = "submitReview"
  /\ calls[p].pc = "gotReview"
  /\ calls[p].reviewRequest # 0
  /\ LET review == reviews[calls[p].reviewRequest]
     IN IF calls[p].agentId \in Range(review.reviewerAgentIds)
        THEN review.reviewStatuses[calls[p].agentId] = "completed"
        ELSE TRUE

\* C14: submitReview by an agent that is not listed in the request's
\* reviewerAgentIds, or that is listed and already COMPLETED, fails and
\* leaves the review requests and the stored comments as they were.
IneligibleSubmissionFails ==
  [][\A p \in CallIds :
       (IneligibleSubmission(p) /\ calls'[p] # calls[p]) =>
         /\ calls'[p] = Idle
         /\ last' \in {"is not a reviewer for this request",
                       "has already submitted their review",
                       "is already completed"}
         /\ reviews' = reviews
         /\ comments' = comments]_vars

\* a second submission to a review request that is still active was just refused
SecondSubmissionRefusedWitness ==
  /\ last = "has already submitted their review"
  /\ \E r \in 1..Len(reviews) :
       /\ reviews[r].completedAt = 0
       /\ \E a \in DOMAIN reviews[r].reviewStatuses : reviews[r].reviewStatuses[a] = "completed"

\* the submitReview call in slot p is at its checks, on a review request
\* whose deadline is earlier than the current time
LateSubmission(p) ==
  /\ calls[p] # Idle
  /\ calls[p].op = "submitReview"
  /\ calls[p].pc = "gotReview"
  /\ calls[p].reviewRequest # 0
  /\ reviews[calls[p].reviewRequest].deadline # 0
  /\ now > reviews[calls[p].reviewRequest].deadline

\* C15: every submitReview on a review request whose deadline is earlier
\* than the current time fails and leaves the request (and the stored
\* comments) unchanged; the passing of time by itself changes no review
\* request: no reviewer status, no completed-at.
LateSubmissionFails ==
  [][/\ \A p \in CallIds :
          (LateSubmission(p) /\ calls'[p] # calls[p]) =>
            /\ calls'[p] = Idle
            /\ last' \notin {"ok", "none"}
            /\ reviews' = reviews
            /\ comments' = comments
     /\ now' # now => reviews' = reviews]_vars

\* a reviewer who was still pending has just been refused after the deadline
LateSubmissionRefusedWitness ==
  /\ last = "Review deadline has passed"
  /\ \E r \in 1..Len(reviews) :
       /\ reviews[r].deadline # 0
       /\ now > reviews[r].deadline
       /\ reviews[r].completedAt = 0
       /\ \E a \in DOMAIN reviews[r].reviewStatuses : reviews[r].reviewStatuses[a] = "completed"

(***************************************************************************)
(* Reviewers                                                               *)
(***************************************************************************)
\* an id that names no agent, or an agent that may not comment
BadReviewer(agentId) == agents[agentId] = Null \/ ~agents[agentId].capabilities.canComment

\* C16: in every reachable state every id in a review request's
\* reviewerAgentIds names an existing agent whose canComment is true, and
\* reviewStatuses has an entry for exactly the ids in reviewerAgentIds; a
\* requestReview with a non-existent or canComment=false reviewer fails and
\* creates no review request.
ReviewersExistAndMayComment ==
  /\ [](\A r \in 1..Len(reviews) :
          /\ \A a \in Range(reviews[r].reviewerAgentIds) : ~BadReviewer(a)
          /\ DOMAIN reviews[r].reviewStatuses = Range(reviews[r].reviewerAgentIds))
  /\ [][\A p \in CallIds :
          (/\ calls[p] # Idle
           /\ calls[p].op = "requestReview"
           /\ \E a \in Range(calls[p].reviewerAgentIds) : BadReviewer(a)
           /\ calls'[p] = Idle)
          => /\ last' \notin {"ok", "none"}
             /\ reviews' = reviews]_vars

\* after a completed round, a request naming an agent that may not comment
\* was refused, and the review that exists got a reviewer added
BadReviewerRefusedWitness ==
  /\ last = "does not have permission to review"
  /\ Len(reviews) = 1
  /\ reviews[1].completedAt # 0
  /\ reviews[1].reviewerAgentIds = <<"fe", "be">>

\* how many times agentId stands in the list
Occurrences(reviewerAgentIds, agentId) ==
  Cardinality({i \in 1..Len(reviewerAgentIds) : reviewerAgentIds[i] = agentId})

\* the addReviewersToActiveReview call in slot p has found its active review
AddingReviewers(p) ==
  /\ calls[p] # Idle
  /\ calls[p].op = "addReviewers"
  /\ calls[p].pc \in {"found", "gotAgent"}
  /\ calls[p].activeReview # 0

\* C17: addReviewersToActiveReview is idempotent per id: for an id that is
\* in reviewerAgentIds already no step of the call adds a second entry or
\* changes that reviewer's status; a call whose ids are all listed already
\* raises no error and leaves the review requests as they are, and a call
\* that succeeds leaves all its ids listed, so that the same call made
\* again changes nothing.
AddReviewersIsIdempotent ==
  [][\A p \in CallIds : \A r \in 1..MaxReviews :
       (AddingReviewers(p) /\ calls[p].activeReview = r) =>
          /\ \A a \in Range(reviews[r].reviewerAgentIds) :
               /\ Occurrences(reviews[r].reviewerAgentIds, a)' = Occurrences(reviews[r].reviewerAgentIds, a)
               /\ reviews[r].reviewStatuses[a]' = reviews[r].reviewStatuses[a]
          /\ (/\ calls[p].pc = "found"
              /\ Range(calls[p].newReviewerIds) \subseteq Range(reviews[r].reviewerAgentIds)
              /\ calls'[p] # calls[p])
             => /\ calls'[p] = Idle
                /\ last' = "ok"
                /\ reviews' = reviews
          /\ (calls'[p] = Idle /\ last' = "ok")
             => Range(calls[p].newReviewerIds) \subseteq Range(reviews[r].reviewerAgentIds)']_vars

\* a call has passed over two listed reviewers, one of them completed
ListedReviewersSkippedWitness ==
  \E p \in CallIds :
    /\ AddingReviewers(p)
    /\ calls[p].pc = "gotAgent"
    /\ calls[p].newReviewerIds = <<"fe", "be", "ro">>
    /\ calls[p].index = 3
    /\ reviews[calls[p].activeReview].reviewStatuses["fe"] = "completed"
    /\ reviews[calls[p].activeReview].reviewStatuses["be"] = "in_progress"

(***************************************************************************)
(* Who may comment, and on what                                            *)
(***************************************************************************)
\* the call in slot p is an addComment on an existing document, or a
\* replyToComment on an existing parent, made with agentId's id
CommentingAs(p, agentId) ==
  /\ calls[p] # Idle
  /\ \/ calls[p].op = "addComment" /\ calls[p].rfc # Null
     \/ calls[p].op = "replyToComment" /\ calls[p].parentComment # Null
  /\ calls[p].agentId = agentId

\* C18: addComment and replyToComment made with an existing agent whose
\* canComment is false fail with the permission error and store no comment,
\* for every document, parent comment and comment type.
CommentingNeedsPermission ==
  [][\A p \in CallIds : \A a \in AgentIds :
       (agents[a] # Null /\ ~agents[a].capabilities.canComment /\ CommentingAs(p, a)) =>
         /\ comments' = comments
         /\ calls'[p] = Idle => last' = "does not have permission to comment"]_vars

\* with a comment stored, a call by an agent that may not comment was just refused
CommentRefusedWitness ==
  /\ last = "does not have permission to comment"
  /\ CreatedCommentIds # {}

\* the addComment call in slot p is an inline comment whose quoted text is
\* left out, or is no substring of the current content of its document
BadQuote(p) ==
  /\ calls[p] # Idle
  /\ calls[p].op = "addComment"
  /\ calls[p].commentType = "inline"
  /\ GetRFC(calls[p].rfcId) # Null
  /\ \/ calls[p].quotedText = <<>>
     \/ ~Includes(GetRFC(calls[p].rfcId).content, calls[p].quotedText)

\* C19: addComment of type inline whose quotedText is missing, or is not a
\* literal substring of the current content of the document, throws (for an
\* agent that may comment: one of the two quoted-text errors) and leaves the
\* stored comments as they were.
BadQuoteRefused ==
  [][\A p \in CallIds :
       BadQuote(p) =>
         /\ comments' = comments
         /\ calls'[p] = Idle =>
              /\ last' \notin {"ok", "none"}
              /\ (agents[calls[p].agentId] # Null /\ agents[calls[p].agentId].capabilities.canComment)
                   => last' = IF calls[p].quotedText = <<>>
                              THEN "Quoted text is required for inline comments"
                              ELSE "Quoted text not found in RFC content"]_vars

\* a quote of the first version's text was refused after the content had
\* changed, and a comment that quotes the first version is stored
StaleQuoteRefusedWitness ==
  /\ last = "Quoted text not found in RFC content"
  /\ GetRFC(1).version = 2
  /\ GetRFC(1).content = <<"b">>
  /\ \E i \in CreatedCommentIds :
       /\ comments[i].type = "inline"
       /\ comments[i].rfcVersion = 1
       /\ comments[i].textReference.quotedText = <<"a">>

\* the call in slot p is a resolveComment or dismissComment of comment id
Closing(p, id) ==
  /\ calls[p] # Idle
  /\ calls[p].op \in {"resolveComment", "dismissComment"}
  /\ calls[p].commentId = id

\* C20: resolveComment and dismissComment succeed only on a comment whose
\* status is OPEN; on a comment that is RESOLVED or DISMISSED either call
\* fails with the 'already <status>' error and leaves the comment as it is.
ClosingNeedsOpen ==
  [][\A p \in CallIds : \A id \in CommentIds :
       (Closing(p, id) /\ comments[id] # Null /\ calls'[p] = Idle) =>
         /\ last' = "ok" => comments[id].status = "open"
         /\ comments[id].status # "open" =>
              /\ last' = "Comment is already " \o comments[id].status
              /\ comments' = comments]_vars

\* a comment was resolved, another dismissed, and a call on a closed one was just refused
ClosedCommentRefusedWitness ==
  /\ last = "Comment is already dismissed"
  /\ \E i, j \in CreatedCommentIds :
       /\ comments[i].status = "resolved" /\ comments[i].resolvedBy = "be"
       /\ comments[j].status = "dismissed" /\ comments[j].dismissedBy = "fe"

(***************************************************************************)
(* replaceString                                                           *)
(***************************************************************************)
\* the call in slot p is a replaceString on document id
Replacing(p, id) ==
  /\ calls[p] # Idle
  /\ calls[p].op = "replaceString"
  /\ calls[p].rfcId = id

\* C21: replaceString whose oldText is not a substring of the document's
\* current content throws the 'not found in RFC content' error before any
\* mutation: no step of the call changes the document's current version,
\* its content or its recorded versions.
AbsentTextRefused ==
  [][\A p \in CallIds : \A id \in RFCIds :
       (Replacing(p, id) /\ GetRFC(id) # Null /\ ~Includes(GetRFC(id).content, calls[p].oldText)) =>
         /\ rfcs' = rfcs
         /\ latestVersions' = latestVersions
         /\ calls'[p] = Idle => last' = "not found in RFC content"]_vars

\* the replaceString call in slot p, on document id with the given
\* replaceAll, settles while oldText is a substring of the current content
ReplacementSettles(p, id, replaceAll) ==
  /\ Replacing(p, id)
  /\ calls[p].replaceAll = replaceAll
  /\ GetRFC(id) # Null
  /\ Includes(GetRFC(id).content, calls[p].oldText)
  /\ calls'[p] = Idle

\* s with the occurrence of old at position i replaced by new
ReplacedAt(s, old, new, i) ==
  SubSeq(s, 1, i - 1) \o new \o SubSeq(s, i + Len(old), Len(s))

\* s from position i on, with every occurrence of old met in a scan from
\* left to right replaced by new, the scan resuming after each occurrence
RECURSIVE ReplacedEverywhere(_, _, _, _)
ReplacedEverywhere(s, old, new, i) ==
  IF i > Len(s) THEN <<>>
  ELSE IF MatchesAt(s, old, i)
       THEN new \o ReplacedEverywhere(s, old, new, i + Len(old))
       ELSE <<s[i]>> \o ReplacedEverywhere(s, old, new, i + 1)

\* one version more is recorded for document id, and it is the current one
OneNewVersion(id) ==
  /\ GetRFC(id)'.version = GetRFC(id).version + 1
  /\ Len(rfcs[id])' = Len(rfcs[id]) + 1
  /\ RecordedVersions(id)' = RecordedVersions(id) \cup {GetRFC(id).version + 1}

\* C24: replaceString with replaceAll false and oldText present succeeds,
\* replaces only the first (leftmost) occurrence of oldText with newText,
\* leaves every later occurrence and all other text unchanged, and produces
\* exactly one new version (version + 1).
FirstOccurrenceReplaced ==
  [][\A p \in CallIds : \A id \in RFCIds :
       ReplacementSettles(p, id, FALSE) =>
         /\ last' = "ok"
         /\ \E i \in 1..(Len(GetRFC(id).content) + 1) :
              /\ MatchesAt(GetRFC(id).content, calls[p].oldText, i)
              /\ \A j \in 1..(i - 1) : ~MatchesAt(GetRFC(id).content, calls[p].oldText, j)
              /\ GetRFC(id)'.content = ReplacedAt(GetRFC(id).content, calls[p].oldText, calls[p].newText, i)
         /\ OneNewVersion(id)]_vars

\* the first "a" of "aba" was replaced by "b", the second one left
FirstOccurrenceWitness ==
  /\ last = "ok"
  /\ Len(history[1]) >= 2
  /\ history[1][1] = <<"a", "b", "a">>
  /\ history[1][2] = <<"b", "b", "a">>
  /\ GetRFC(1).version = Len(history[1])

AbsentTextRefusedWitness ==
  /\ last = "not found in RFC content"
  /\ GetRFC(1) # Null
  /\ GetRFC(1).version = 2
  /\ GetRFC(1).content = <<>>

(***************************************************************************)
(* The current view                                                        *)
(***************************************************************************)
\* C22: in every reachable state, the states reached by interleaved
\* concurrent calls included, the current view of a document (getRFC /
\* storage getById) is the recorded version with the highest version number
\* for that id, and a document has a current view as soon as it has a
\* recorded version.
CurrentIsHighestRecorded ==
  \A id \in RFCIds :
    IF rfcs[id] = <<>>
    THEN GetRFC(id) = Null
    ELSE /\ GetRFC(id) # Null
         /\ \E i \in 1..Len(rfcs[id]) : rfcs[id][i] = GetRFC(id)
         /\ \A i \in 1..Len(rfcs[id]) :
              \/ rfcs[id][i].version < GetRFC(id).version
              \/ rfcs[id][i] = GetRFC(id)

\* a status change that read version 1 was written after version 2 existed:
\* the snapshot of version 1 is in review, the current view is version 2
StaleStatusWriteWitness ==
  /\ mode = "free"
  /\ Len(rfcs[1]) = 2
  /\ rfcs[1][1].status = "in_review"
  /\ rfcs[1][2].status = "draft"
  /\ GetRFC(1).version = 2

(***************************************************************************)
(* Overlapping calls on one review request                                 *)
(***************************************************************************)
\* the submitReview call in slot p, of reviewer a on review request r, settles with success
SubmissionSucceeds(p, r, a) ==
  /\ calls[p] # Idle
  /\ calls[p].op = "submitReview"
  /\ calls[p].reviewRequest = r
  /\ calls[p].agentId = a
  /\ calls'[p] = Idle
  /\ last' = "ok"

\* C23: of two submitReview calls by the same listed reviewer on the same
\* review request that overlap, at most one succeeds: no submission
\* succeeds for a reviewer who is COMPLETED already, and completed-at is
\* not stamped a second time.
SameReviewerSubmitsOnce ==
  [][\A p \in CallIds : \A r \in ReviewIds : \A a \in DOMAIN reviews[r].reviewStatuses :
       SubmissionSucceeds(p, r, a) =>
         /\ reviews[r].reviewStatuses[a] # "completed"
         /\ reviews[r].completedAt = 0]_vars

(***************************************************************************)
(* Overlapping addComment calls                                            *)
(***************************************************************************)
\* the addComment call in slot p, on document d, settles
AddCommentSettles(p, d) ==
  /\ calls[p] # Idle
  /\ calls[p].op = "addComment"
  /\ calls[p].rfcId = d
  /\ calls'[p] = Idle

\* C26: when addComment calls on a document by agents with canComment
\* overlap, each persists exactly one comment under an id of its own and
\* none is lost: every call succeeds, its step adds one comment to those
\* getCommentsForRFC returns and keeps all the others, and every stored
\* comment is among those getCommentsForRFC returns for its document.
OverlappingCommentsAllKept ==
  /\ [](\A i \in CommentIds :
          comments[i] # Null =>
            /\ comments[i].id = i
            /\ i \in Range(GetCommentsByRFC(comments[i].rfcId)))
  /\ [][\A p \in CallIds : \A d \in RFCIds :
          AddCommentSettles(p, d) =>
            /\ last' = "ok"
            /\ \E i \in CommentIds :
                 /\ comments[i] = Null
                 /\ comments'[i] # Null
                 /\ comments'[i].agentId = calls[p].agentId
                 /\ \A j \in CommentIds \ {i} : comments'[j] = comments[j]
                 /\ Range(GetCommentsByRFC(d))' = Range(GetCommentsByRFC(d)) \cup {i}
                 /\ Len(GetCommentsByRFC(d))' = Len(GetCommentsByRFC(d)) + 1]_vars

\* two addComment calls on document 1 overlap, both past the lookup of the
\* document, while a comment on it is stored
OverlappingCommentsWitness ==
  /\ mode = "free"
  /\ Len(GetCommentsByRFC(1)) = 1
  /\ \A p \in {1, 2} :
       /\ calls[p] # Idle
       /\ calls[p].op = "addComment"
       /\ calls[p].rfcId = 1
       /\ calls[p].pc = "gotAgent"

(***************************************************************************)
(* Capabilities                                                            *)
(***************************************************************************)
\* the default of a flag for a role: LEAD has all three flags, every other
\* role canComment only
DefaultFlag(type, flag) == type = "lead" \/ flag = "canComment"

\* C27: createAgent gives every role a default capability set that
\* explicit overrides replace flag by flag: LEAD defaults to all three flags
\* true, every other role to canComment true and canEdit and canApprove
\* false; a flag passed explicitly takes the passed value and the flags not
\* passed keep the role default.
CapabilitiesDefaultByRole ==
  \A p \in CallIds :
    (calls[p] # Idle /\ calls[p].op = "createAgent") =>
      /\ agents[calls[p].id] # Null
      /\ agents[calls[p].id].type = calls[p].type
      /\ DOMAIN agents[calls[p].id].capabilities = Flags
      /\ \A flag \in Flags :
           agents[calls[p].id].capabilities[flag] =
             IF flag \in DOMAIN calls[p].capabilities
             THEN calls[p].capabilities[flag]
             ELSE DefaultFlag(calls[p].type, flag)

\* createAgent has returned a backend agent that was given canApprove and
\* denied canComment, and has its role's default for canEdit
CustomCapabilitiesWitness ==
  \E a \in AgentIds :
    /\ agents[a] # Null
    /\ NoCallInFlight
    /\ last = "ok"
    /\ agents[a].type = "backend"
    /\ agents[a].capabilities = [canEdit |-> FALSE, canComment |-> FALSE, canApprove |-> TRUE]

(***************************************************************************)
(* The status of a reviewer                                                *)
(***************************************************************************)
\* the changes of a reviewer's status the state machine allows, as <<from, to>>
ReviewerTransitions ==
  {<<"pending", "in_progress">>, <<"pending", "completed">>, <<"in_progress", "completed">>}

\* C28: every change of a reviewer's status inside a review request is one
\* of PENDING -> IN_PROGRESS, PENDING -> COMPLETED or IN_PROGRESS ->
\* COMPLETED (a status never returns to PENDING and never leaves
\* COMPLETED), a reviewer enters a request as PENDING, and a submitReview
\* that passes its checks completes a reviewer that is PENDING as well as
\* one that is IN_PROGRESS.
ReviewerStatusOnlyAdvances ==
  [][\A r \in ReviewIds :
       /\ r \in ReviewIds'
       /\ \A a \in DOMAIN reviews[r].reviewStatuses :
            /\ a \in DOMAIN reviews'[r].reviewStatuses
            /\ \/ reviews'[r].reviewStatuses[a] = reviews[r].reviewStatuses[a]
               \/ <<reviews[r].reviewStatuses[a], reviews'[r].reviewStatuses[a]>> \in ReviewerTransitions
       /\ \A a \in DOMAIN reviews'[r].reviewStatuses \ DOMAIN reviews[r].reviewStatuses :
            reviews'[r].reviewStatuses[a] = "pending"]_vars

(***************************************************************************)
(* Threads                                                                 *)
(***************************************************************************)
\* the comment that has no parent at the top of the thread of comment id
RECURSIVE RootOf(_)
RootOf(id) ==
  IF comments[id].parentCommentId = NoParent THEN id ELSE RootOf(comments[id].parentCommentId)

\* the root of a thread and all its descendants
ThreadOf(root) == {id \in CreatedCommentIds : RootOf(id) = root}

\* the comments that are replies to comment id
RepliesTo(id) == {r \in CreatedCommentIds : comments[r].parentCommentId = id}

\* C29: getCommentThread(c), for any comment c of a thread built with
\* addComment and replyToComment, returns exactly the root of c's thread
\* and all of the root's descendants, each exactly once and with the root
\* as first element, whichever comment of the thread is passed; for a
\* comment with no parent and no replies the result is the single-element
\* list containing only that comment.
ThreadIsRootAndDescendants ==
  \A c \in CreatedCommentIds :
    LET thread == GetCommentThread(c)
    IN /\ thread # "Comment not found"
       /\ Len(thread) >= 1
       /\ thread[1] = RootOf(c)
       /\ Range(thread) = ThreadOf(RootOf(c))
       /\ Len(thread) = Cardinality(ThreadOf(RootOf(c)))
       /\ (comments[c].parentCommentId = NoParent /\ RepliesTo(c) = {}) => thread = <<c>>

\* comment 1 has the replies 2 and 3, and comment 2 is resolved: the thread
\* asked for through reply 2 is the root, the other reply, then reply 2
SiblingThreadWitness ==
  /\ CreatedCommentIds = {1, 2, 3}
  /\ comments[2].parentCommentId = 1
  /\ comments[3].parentCommentId = 1
  /\ comments[2].status = "resolved"
  /\ GetCommentThread(2) = <<1, 3, 2>>
  /\ GetCommentThread(1) = <<1, 2, 3>>

(***************************************************************************)
(* Adding reviewers while the review completes                             *)
(***************************************************************************)
\* C30: when addReviewersToActiveReview overlaps the submitReview call that
\* completes the last pending reviewer of the same review request, the
\* request never has completed-at set while one of its listed reviewers
\* (the newly added one) is not COMPLETED.
NoPendingReviewerOnceCompleted ==
  \A r \in ReviewIds :
    reviews[r].completedAt # 0 =>
      \A i \in 1..Len(reviews[r].reviewerAgentIds) :
        reviews[r].reviewStatuses[reviews[r].reviewerAgentIds[i]] = "completed"

(***************************************************************************)
(* The order of a thread                                                   *)
(***************************************************************************)
\* C31: getCommentThread returns the comments of the thread in creation
\* order: the root first, then the other comments by creation time,
\* whichever comment of the thread is passed and however deep the replies
\* are nested.
ThreadInCreationOrder ==
  \A c \in CreatedCommentIds :
    LET thread == GetCommentThread(c)
    IN /\ thread[1] = RootOf(c)
       /\ \A i, j \in 1..Len(thread) :
            i < j => comments[thread[i]].createdAt <= comments[thread[j]].createdAt

(***************************************************************************)
(* Threads over malformed parent pointers                                  *)
(***************************************************************************)
\* C32: getThread ends for every stored graph of parent pointers, also
\* when the pointers form a cycle or name a comment that is not stored
\* (submitReview stores such comments as the reviewer built them), and its
\* result holds no comment twice.
ThreadWalkEndsWithoutRepeats ==
  \A c \in CommentIds :
    /\ Walk(c).steps < WalkLimit
    /\ \A i, j \in 1..Len(GetThread(c)) : i # j => GetThread(c)[i] # GetThread(c)[j]

\* comments 0 and 1 name each other as parent; the walk from 0 climbs to 1,
\* finds 0 visited and returns both
CyclicThreadWitness ==
  /\ comments[0] # Null /\ comments[1] # Null
  /\ comments[0].parentCommentId = 1
  /\ comments[1].parentCommentId = 0
  /\ GetThread(0) = <<1, 0>>
  /\ NoCallInFlight

(***************************************************************************)
(* The reviewer list as a set                                              *)
(***************************************************************************)
\* C33: the reviewerAgentIds of every review request never holds the same
\* agent id twice, after requestReview with any accepted reviewer list
\* (also one that repeats an id) and after any number of
\* addReviewersToActiveReview calls (also one whose list repeats a new id).
ReviewersListedOnce ==
  \A r \in ReviewIds :
    \A i, j \in 1..Len(reviews[r].reviewerAgentIds) :
      i # j => reviews[r].reviewerAgentIds[i] # reviews[r].reviewerAgentIds[j]

(***************************************************************************)
(* Replies                                                                 *)
(***************************************************************************)
\* the replyToComment call in slot p, on parent comment id, settles in this step
ReplySettles(p, id) ==
  /\ calls[p] # Idle
  /\ calls[p].op = "replyToComment"
  /\ calls[p].parentCommentId = id
  /\ calls'[p] = Idle

\* C34: replyToComment creates a reply of type DOCUMENT_LEVEL with status
\* OPEN whose rfcId and rfcVersion are the parent comment's, also when the
\* document has moved to a later version since the parent was created and
\* whatever the parent's type or status; the parent comment, like every
\* other stored comment, is left as it is.
ReplyInheritsFromParent ==
  [][\A p \in CallIds : \A id \in CommentIds :
       (ReplySettles(p, id) /\ last' = "ok") =>
         /\ comments[id] # Null
         /\ \E r \in CommentIds :
              /\ comments[r] = Null
              /\ comments'[r] # Null
              /\ comments'[r].type = "document_level"
              /\ comments'[r].status = "open"
              /\ comments'[r].parentCommentId = id
              /\ comments'[r].rfcId = comments[id].rfcId
              /\ comments'[r].rfcVersion = comments[id].rfcVersion
              /\ \A j \in CommentIds \ {r} : comments'[j] = comments[j]]_vars

\* comment 1 is inline, made on version 1 and resolved; the document moved
\* to version 2, and later reply 2 to comment 1 was created: it carries
\* version 1
ReplyAfterUpdateWitness ==
  /\ comments[1] # Null /\ comments[2] # Null
  /\ comments[1].type = "inline"
  /\ comments[1].status = "resolved"
  /\ comments[1].rfcVersion = 1
  /\ comments[2].parentCommentId = 1
  /\ latestVersions[1].version = 2
  /\ latestVersions[1].updatedAt < comments[2].createdAt
  /\ comments[2].rfcVersion = 1
  /\ comments[2].type = "document_level"
  /\ comments[2].status = "open"

(***************************************************************************)
(* What a content update leaves alone                                      *)
(***************************************************************************)
\* C35: updateContent and replaceString change only content, version,
\* updated-at and previous-version-id: the new version carries the status,
\* title, author, requesting user and created-at of the version it was
\* built from, for a document in any status (APPROVED and SUPERSEDED
\* too), and its previous-version-id names the version it replaced.
ContentUpdateKeepsTheRest ==
  [][\A p \in CallIds : \A id \in RFCIds :
       MutationSucceeds(p, id, {"updateContent", "replaceString"}) =>
         /\ GetRFC(id)'.id = GetRFC(id).id
         /\ GetRFC(id)'.version = GetRFC(id).version + 1
         /\ GetRFC(id)'.status = GetRFC(id).status
         /\ GetRFC(id)'.title = GetRFC(id).title
         /\ GetRFC(id)'.author = GetRFC(id).author
         /\ GetRFC(id)'.requestingUser = GetRFC(id).requestingUser
         /\ GetRFC(id)'.createdAt = GetRFC(id).createdAt
         /\ GetRFC(id)'.updatedAt = now
         /\ GetRFC(id)'.previousVersionId = <<id, GetRFC(id).version>>]_vars

\* version 1 was approved and then superseded; the content update that
\* followed at a later time made version 2, superseded as well
SupersededContentUpdateWitness ==
  /\ GetRFC(1) # Null
  /\ last = "ok"
  /\ NoCallInFlight
  /\ GetRFC(1).version = 2
  /\ GetRFC(1).status = "superseded"
  /\ GetByVersion(1, 1).status = "superseded"
  /\ GetRFC(1).content = <<"b">>
  /\ GetRFC(1).createdAt = 1
  /\ GetRFC(1).updatedAt = MaxTime
  /\ GetByVersion(1, 1).updatedAt < MaxTime
  /\ GetRFC(1).previousVersionId = <<1, 1>>

(***************************************************************************)
(* A status update that overlaps a content update                          *)
(***************************************************************************)
\* C36: when updateStatus (with an allowed transition) and updateContent on
\* the same document overlap and both succeed, the outcome is that of one
\* of the two serial orders: the current version carries the new status
\* and the new content; the status change is not lost, nor applied only to
\* a version that is no longer current.  Here the only status asked for is
\* in_review, so a recorded version in review shows that the status update
\* succeeded.
StatusChangeReachesCurrentVersion ==
  \A id \in RFCIds :
    (GetRFC(id) # Null /\ NoCallInFlight) =>
      /\ (\E i \in 1..Len(rfcs[id]) : rfcs[id][i].status = "in_review") =>
           GetRFC(id).status = "in_review"
      /\ GetRFC(id).content = history[id][Len(history[id])]

(***************************************************************************)
(* Closing calls that overlap                                              *)
(***************************************************************************)
\* C37: when resolveComment and dismissComment (or two resolveComment
\* calls) on the same OPEN comment overlap, exactly one of them succeeds
\* and the other fails with the 'already <status>' error: a call that has
\* read the comment and settles when the stored comment is closed fails
\* with that error and leaves the comment as it is, and the comment ends
\* with exactly one of resolved-by and dismissed-by recorded.
OneClosingCallSucceeds ==
  /\ [](\A id \in CommentIds :
          (comments[id] # Null /\ comments[id].status # "open") =>
            (comments[id].resolvedBy = "") # (comments[id].dismissedBy = ""))
  /\ [][\A p \in CallIds : \A id \in CommentIds :
          (Closing(p, id) /\ calls[p].comment # Null /\ comments[id].status # "open"
             /\ calls'[p] = Idle) =>
            /\ last' = "Comment is already " \o comments[id].status
            /\ comments' = comments]_vars

(***************************************************************************)
(* Calls that fail half-way                                                *)
(***************************************************************************)
\* the addReviewersToActiveReview call in slot p, which found the active
\* review r, fails in this step on a reviewer id
AddReviewersFails(p, r) ==
  /\ calls[p] # Idle
  /\ calls[p].op = "addReviewers"
  /\ calls[p].activeReview = r
  /\ calls'[p] = Idle
  /\ last' \in {"Reviewer agent not found", "does not have permission to review"}

\* C38: addReviewersToActiveReview is all-or-nothing: when it throws
\* because one of the new reviewer ids names no agent or an agent without
\* canComment, the active review's reviewerAgentIds and reviewStatuses are
\* what they were before the call, also when valid new ids come before the
\* bad one in the list.
AddReviewersAllOrNothing ==
  [][\A p \in CallIds : \A r \in 1..MaxReviews :
       AddReviewersFails(p, r) =>
         /\ reviews'[r].reviewerAgentIds = calls[p].before[r].reviewerAgentIds
         /\ reviews'[r].reviewStatuses = calls[p].before[r].reviewStatuses]_vars

\* the submitReview call in slot p fails in this step on a comment that is
\* for another document
SubmitReviewFails(p) ==
  /\ calls[p] # Idle
  /\ calls[p].op = "submitReview"
  /\ calls'[p] = Idle
  /\ last' = "is not for the RFC being reviewed"

\* C39: submitReview is all-or-nothing: when it throws because one of the
\* supplied comments has an rfcId other than the review's, none of the
\* supplied comments is stored (the valid ones that come before it in the
\* list included), and the reviewer's status and completed-at are
\* unchanged: the reviewer is not COMPLETED and completed-at is unset, as
\* the checks at the start of the call found them.
SubmitReviewAllOrNothing ==
  [][\A p \in CallIds :
       SubmitReviewFails(p) =>
         /\ comments' = calls[p].before
         /\ reviews' = reviews
         /\ reviews'[calls[p].reviewRequest].reviewStatuses[calls[p].agentId] # "completed"
         /\ reviews'[calls[p].reviewRequest].completedAt = 0]_vars

(***************************************************************************)
(* A review request whose deadline has passed                              *)
(***************************************************************************)
\* review request r is active, its deadline has passed, and one of its
\* reviewers is not COMPLETED
Overdue(r) ==
  /\ reviews[r].completedAt = 0
  /\ reviews[r].deadline # 0
  /\ now > reviews[r].deadline
  /\ ~AllCompleted(reviews[r].reviewStatuses)

\* a requestReview call for the document of review request r gets its answer in this step
RequestForSameDocumentSettles(p, r) ==
  /\ calls[p] # Idle
  /\ calls[p].op = "requestReview"
  /\ calls[p].rfcId = reviews[r].rfcId
  /\ calls'[p] = Idle

\* no submitReview call on review request r has passed its checks and is
\* in its comment loop
NoSubmissionUnderWay(r) ==
  \A p \in CallIds :
    (calls[p] # Idle /\ calls[p].op = "submitReview" /\ calls[p].reviewRequest = r) =>
      calls[p].pc = "gotReview"

\* C40: once the deadline of an active review request has passed while at
\* least one reviewer is not COMPLETED, the request stays active in every
\* later state: no operation sets its completed-at, and every later
\* requestReview for the same document fails with the active-review
\* conflict error.
OverdueReviewStaysActive ==
  [][\A r \in ReviewIds :
       Overdue(r) =>
         /\ Overdue(r)'
         /\ \A p \in CallIds :
              RequestForSameDocumentSettles(p, r) => last' = "already has an active review request"]_vars

\* C40, amended: the same for a request on which no submitReview call that
\* passed the deadline check in time is still under way.
OverdueReviewStaysActiveOnceSubmissionsEnded ==
  [][\A r \in ReviewIds :
       (Overdue(r) /\ NoSubmissionUnderWay(r)) =>
         /\ Overdue(r)'
         /\ NoSubmissionUnderWay(r)'
         /\ \A p \in CallIds :
              RequestForSameDocumentSettles(p, r) => last' = "already has an active review request"]_vars

\* after the deadline of request 1, which "fe" has completed and "be" has
\* not, a new request for the document was refused
OverdueRequestRefusedWitness ==
  /\ Len(reviews) = 1
  /\ Overdue(1)
  /\ NoCallInFlight
  /\ reviews[1].reviewStatuses["fe"] = "completed"
  /\ now = MaxTime
  /\ last = "already has an active review request"

====
